---- MODULE Spec2Model ----
(***************************************************************************)
(* Matching & Scoring Engine of the resume relevance checker.             *)
(*                                                                         *)
(* Python values are tagged records: None, Str(chars), List(items),        *)
(* Num(rational).  Texts are sequences of one-character strings so that    *)
(* lower(), strip(), split() and the substring test act on characters.     *)
(* Numbers are exact rationals <<numerator, denominator>>; the model       *)
(* computes what the float expressions of the source denote.               *)
(***************************************************************************)
EXTENDS Integers, Sequences, FiniteSets, TLC

VARIABLES
    engine,      \* the ScoringEngine instance: libraries found, weights, fitted vectorizer
    call,        \* the last calculate_hybrid_score call: arguments, sub-scores, outcome
    probe,       \* the last direct application of one sub-scorer or verdict mapping
    criteria,    \* the last MatchingCriteria construction: arguments and outcome
    page         \* the resume-analysis page of the application: position, data, events

vars == <<engine, call, probe, criteria, page>>

(***************************************************************************)
(* Exact rational arithmetic.                                              *)
(***************************************************************************)
Abs(i) == IF i < 0 THEN -i ELSE i

RECURSIVE GCD(_, _)
GCD(a, b) == IF b = 0 THEN a ELSE GCD(b, a % b)

Norm(n, d) ==
    LET g == GCD(Abs(n), Abs(d))
        s == IF d < 0 THEN -1 ELSE 1
    IN  <<(s * n) \div g, (s * d) \div g>>

Q(n, d) == Norm(n, d)
Whole(i) == <<i, 1>>

RAdd(a, b) ==
    LET l == (a[2] \div GCD(a[2], b[2])) * b[2]
    IN  Norm(a[1] * (l \div a[2]) + b[1] * (l \div b[2]), l)

RNeg(a) == <<-a[1], a[2]>>
RSub(a, b) == RAdd(a, RNeg(b))

RMul(a, b) ==
    LET g1 == GCD(Abs(a[1]), b[2])
        g2 == GCD(Abs(b[1]), a[2])
    IN  Norm((a[1] \div g1) * (b[1] \div g2), (a[2] \div g2) * (b[2] \div g1))

RLess(a, b) == RSub(a, b)[1] < 0
RMin(a, b) == IF RLess(b, a) THEN b ELSE a
RMax(a, b) == IF RLess(a, b) THEN b ELSE a

\* Python's built-in round(x): nearest integer, ties go to the even neighbour.
round(x) ==
    LET fl == x[1] \div x[2]
        r2 == 2 * (x[1] - fl * x[2])
    IN  IF r2 < x[2] THEN fl
        ELSE IF r2 > x[2] THEN fl + 1
        ELSE IF fl % 2 = 0 THEN fl ELSE fl + 1

RECURSIVE ISqrtFrom(_, _)
ISqrtFrom(x, k) ==
    LET k2 == (k + x \div k) \div 2
    IN  IF k2 >= k THEN k ELSE ISqrtFrom(x, k2)

\* floor of the square root (Newton iteration from above)
ISqrt(x) == IF x <= 1 THEN x ELSE ISqrtFrom(x, x)

(***************************************************************************)
(* Python values.                                                          *)
(***************************************************************************)
None == [kind |-> "none"]
Str(s) == [kind |-> "str", val |-> s]
List(s) == [kind |-> "list", val |-> s]
Num(q) == [kind |-> "num", val |-> q]
Absent == [kind |-> "absent"]          \* a key the dict does not have

IsStr(v) == v.kind = "str"
IsList(v) == v.kind = "list"
IsNum(v) == v.kind = "num"

\* truthiness as used by `x or []`: None, "" and [] are falsy
Truthy(v) ==
    CASE v.kind = "none" -> FALSE
      [] v.kind = "str" -> v.val # <<>>
      [] v.kind = "list" -> v.val # <<>>
      [] v.kind = "num" -> v.val[1] # 0
      [] OTHER -> TRUE

(***************************************************************************)
(* str methods on character sequences.                                     *)
(***************************************************************************)
Upper == <<"A","B","C","D","E","F","G","H","I","J","K","L","M",
           "N","O","P","Q","R","S","T","U","V","W","X","Y","Z">>
Lowercase == <<"a","b","c","d","e","f","g","h","i","j","k","l","m",
           "n","o","p","q","r","s","t","u","v","w","x","y","z">>
Digits == <<"0","1","2","3","4","5","6","7","8","9">>

InSeq(c, s) == \E i \in 1..Len(s) : s[i] = c
IndexOf(c, s) == CHOOSE i \in 1..Len(s) : s[i] = c

IsSpace(c) == c \in {" ", "\n", "\t"}
IsDigit(c) == InSeq(c, Digits)
IsAlpha(c) == InSeq(c, Upper) \/ InSeq(c, Lowercase)
IsWordChar(c) == IsAlpha(c) \/ IsDigit(c) \/ c = "_"

LowerChar(c) == IF InSeq(c, Upper) THEN Lowercase[IndexOf(c, Upper)] ELSE c

\* the sequence with the elements f[1], ..., f[n]
Tuple(f) == f \o <<>>

\* str.lower()
lower(s) == Tuple([i \in 1..Len(s) |-> LowerChar(s[i])])

\* str.strip()
strip(s) ==
    LET keep == {i \in 1..Len(s) : ~IsSpace(s[i])}
    IN  IF keep = {} THEN <<>>
        ELSE LET lo == CHOOSE i \in keep : \A j \in keep : i <= j
                 hi == CHOOSE i \in keep : \A j \in keep : i >= j
             IN  SubSeq(s, lo, hi)

\* `a in b` on strings
IsSubstring(a, b) ==
    \E i \in 0..(Len(b) - Len(a)) : \A k \in 1..Len(a) : b[i + k] = a[k]

\* the character classes the tokenizers of the source split on
Keeps(class, c) ==
    CASE class = "nonspace" -> ~IsSpace(c)
      [] class = "alpha" -> IsAlpha(c)
      [] class = "word" -> IsWordChar(c)

\* maximal runs of characters of one class, in order
RECURSIVE Runs(_, _, _, _)
Runs(s, i, cur, class) ==
    IF i > Len(s) THEN (IF cur = <<>> THEN <<>> ELSE <<cur>>)
    ELSE IF Keeps(class, s[i]) THEN Runs(s, i + 1, Append(cur, s[i]), class)
    ELSE (IF cur = <<>> THEN <<>> ELSE <<cur>>) \o Runs(s, i + 1, <<>>, class)

\* str.split() with no argument: the whitespace-separated tokens
split(s) == Runs(s, 1, <<>>, "nonspace")

Range(s) == {s[i] : i \in 1..Len(s)}

(***************************************************************************)
(* Outcomes of a computation that may raise.                               *)
(***************************************************************************)
Raise == [raised |-> TRUE]
Return(v) == [raised |-> FALSE, val |-> v]

\* a sub-scorer whose failure reaches its caller
Propagate(body, default) ==
    IF body.raised THEN [raised |-> TRUE, failed |-> TRUE]
    ELSE [raised |-> FALSE, val |-> body.val, failed |-> FALSE]

\* try: body / except Exception: return default
\* (`failed` remembers that the except branch was taken)
TryExcept(body, default) ==
    [raised |-> FALSE,
     val |-> IF body.raised THEN default ELSE body.val,
     failed |-> body.raised]

(***************************************************************************)
(* The regular expressions of _extract_years_of_experience, matched        *)
(* as re does: leftmost start, greedy quantifiers, findall without overlap.*)
(***************************************************************************)
CharAt(s, i) == IF i >= 1 /\ i <= Len(s) THEN s[i] ELSE ""

StartsWith(s, i, lit) ==
    /\ i >= 1
    /\ i + Len(lit) - 1 <= Len(s)
    /\ \A k \in 1..Len(lit) : s[i + k - 1] = lit[k]

RECURSIVE DigitsEnd(_, _)
DigitsEnd(s, i) == IF IsDigit(CharAt(s, i)) THEN DigitsEnd(s, i + 1) ELSE i

RECURSIVE SpacesEnd(_, _)
SpacesEnd(s, i) == IF IsSpace(CharAt(s, i)) THEN SpacesEnd(s, i + 1) ELSE i

RECURSIVE ColonSpacesEnd(_, _)
ColonSpacesEnd(s, i) ==
    IF IsSpace(CharAt(s, i)) \/ CharAt(s, i) = ":" THEN ColonSpacesEnd(s, i + 1) ELSE i

RECURSIVE WordEnd(_, _)
WordEnd(s, i) == IF IsWordChar(CharAt(s, i)) THEN WordEnd(s, i + 1) ELSE i

RECURSIVE IntOf(_)
IntOf(digs) ==
    IF digs = <<>> THEN 0
    ELSE 10 * IntOf(SubSeq(digs, 1, Len(digs) - 1)) + (IndexOf(digs[Len(digs)], Digits) - 1)

NoMatch == [ok |-> FALSE]
Match(e, v) == [ok |-> TRUE, end |-> e, val |-> v]

\* (\d+)\+?\s*years?  matched at i; `end` is the index after the match, `val`
\* the digits the group has captured
YearsAt(s, i) ==
    LET d == DigitsEnd(s, i)
        p == IF CharAt(s, d) = "+" THEN d + 1 ELSE d
        y == SpacesEnd(s, p)
        e == IF CharAt(s, y + 4) = "s" THEN y + 5 ELSE y + 4
    IN  IF d > i /\ StartsWith(s, y, <<"y","e","a","r">>)
        THEN Match(e, SubSeq(s, i, d - 1))
        ELSE NoMatch

\* r'(\d+)\+?\s*years?\s*(?:of\s*)?experience'
Pattern1At(s, i) ==
    LET m == YearsAt(s, i)
        b == SpacesEnd(s, m.end)
        c == IF StartsWith(s, b, <<"o","f">>) THEN SpacesEnd(s, b + 2) ELSE b
    IN  IF m.ok /\ StartsWith(s, c, <<"e","x","p","e","r","i","e","n","c","e">>) THEN Match(c + 10, m.val) ELSE NoMatch

\* r'(\d+)\+?\s*years?\s*in\s*\w+'
Pattern2At(s, i) ==
    LET m == YearsAt(s, i)
        b == SpacesEnd(s, m.end)
        w == SpacesEnd(s, b + 2)
    IN  IF m.ok /\ StartsWith(s, b, <<"i","n">>) /\ WordEnd(s, w) > w
        THEN Match(WordEnd(s, w), m.val) ELSE NoMatch

\* r'experience[:\s]*(\d+)\+?\s*years?'
Pattern3At(s, i) ==
    LET c == ColonSpacesEnd(s, i + 10)
        m == YearsAt(s, c)
    IN  IF StartsWith(s, i, <<"e","x","p","e","r","i","e","n","c","e">>) /\ m.ok THEN m ELSE NoMatch

\* r'(\d+)\+?\s*years?\s*professional'
Pattern4At(s, i) ==
    LET m == YearsAt(s, i)
        b == SpacesEnd(s, m.end)
    IN  IF m.ok /\ StartsWith(s, b, <<"p","r","o","f","e","s","s","i","o","n","a","l">>) THEN Match(b + 12, m.val) ELSE NoMatch

PatternAt(n, s, i) ==
    CASE n = 1 -> Pattern1At(s, i)
      [] n = 2 -> Pattern2At(s, i)
      [] n = 3 -> Pattern3At(s, i)
      [] n = 4 -> Pattern4At(s, i)

\* re.findall(pattern, text, re.IGNORECASE): the captured digit strings, left to right
RECURSIVE FindAllFrom(_, _, _)

\* the scan goes on after the match m tried at i
FindNext(n, s, i, m) ==
    IF m.ok THEN <<m.val>> \o FindAllFrom(n, s, m.end)
    ELSE FindAllFrom(n, s, i + 1)

FindAllFrom(n, s, i) ==
    IF i > Len(s) THEN <<>> ELSE FindNext(n, s, i, PatternAt(n, s, i))

findall(n, text) == FindAllFrom(n, lower(text), 1)

RoleWords == {<<"w","o","r","k","e","d">>, <<"e","m","p","l","o","y","e","d">>, <<"p","o","s","i","t","i","o","n">>, <<"r","o","l","e">>}

\* a count of the role words that takes them inside longer words too
CountRoleSubstrings(text) ==
    Cardinality({i \in 1..Len(text) : \E w \in RoleWords : StartsWith(lower(text), i, w)})

\* len(re.findall(r'\b(?:worked|employed|position|role)\b', text, re.IGNORECASE))
CountRoleIndicators(text) ==
    LET s == lower(text)
    IN  Cardinality({i \in 1..Len(s) :
            \E w \in RoleWords :
                /\ StartsWith(s, i, w)
                /\ ~IsWordChar(CharAt(s, i - 1))
                /\ ~IsWordChar(CharAt(s, i + Len(w)))})

SeqMax(q) == CHOOSE v \in Range(q) : \A w \in Range(q) : w <= v

\* a choice that takes the years found only when their maximum is positive
YearsFromPositive(years_found, job_indicators) ==
    IF years_found # <<>> /\ SeqMax(years_found) > 0 THEN SeqMax(years_found)
    ELSE IF job_indicators >= 3 THEN 5
    ELSE IF job_indicators >= 2 THEN 3
    ELSE IF job_indicators >= 1 THEN 1
    ELSE 0

\* max(years_found), or the estimate from the number of role indicators
YearsFrom(years_found, job_indicators) ==
    IF years_found # <<>> THEN SeqMax(years_found)
    ELSE IF job_indicators >= 3 THEN 5
    ELSE IF job_indicators >= 2 THEN 3
    ELSE IF job_indicators >= 1 THEN 1
    ELSE 0

\* int(match): CPython refuses a digit string longer than its conversion
\* limit with a ValueError.  The limit is 4300 digits by default; the texts
\* here are short, and the limit is scaled down with them.
IntMaxStrDigits == 3

\* years_found.extend([int(match) for match in matches]) for the four
\* patterns, then the choice of the years
YearsOf(matches, text) ==
    IF \E i \in 1..Len(matches) : Len(matches[i]) > IntMaxStrDigits THEN Raise
    ELSE Return(YearsFrom(Tuple([i \in 1..Len(matches) |-> IntOf(matches[i])]),
                          CountRoleIndicators(text)))

YearsBody(text) ==
    YearsOf(findall(1, text) \o findall(2, text) \o findall(3, text) \o findall(4, text), text)

\* try: ... except Exception: return 1
YearsOrOne(body) == TryExcept(body, 1)

\* the outcome of the extraction: `val` is what it returns, `failed`
\* whether its except branch was taken
_extract_years_of_experience(text) == YearsOrOne(YearsBody(text))


(***************************************************************************)
(* Arguments of the engine.  A Resume or JobDescription is None or an      *)
(* object; the analysis bundle is None or a dict whose missing keys are    *)
(* Absent.                                                                 *)
(***************************************************************************)
Resume(content) == [kind |-> "Resume", content |-> content]

\* str.split(sep): the pieces between the separators, empty ones included
RECURSIVE SplitOn(_, _, _, _)
SplitOn(s, sep, i, cur) ==
    IF i > Len(s) THEN <<cur>>
    ELSE IF s[i] = sep THEN <<cur>> \o SplitOn(s, sep, i + 1, <<>>)
    ELSE SplitOn(s, sep, i + 1, Append(cur, s[i]))

\* [skill.strip() for skill in pieces if skill.strip()]
RECURSIVE StrippedNonEmpty(_)
StrippedNonEmpty(pieces) ==
    IF pieces = <<>> THEN <<>>
    ELSE (IF strip(Head(pieces)) = <<>> THEN <<>> ELSE <<Str(strip(Head(pieces)))>>)
         \o StrippedNonEmpty(Tail(pieces))

\* a normalisation that splits at the commas and does nothing else
SplitOnly(skills) ==
    IF IsStr(skills)
    THEN List(Tuple([i \in 1..Len(SplitOn(skills.val, ",", 1, <<>>)) |->
                        Str(SplitOn(skills.val, ",", 1, <<>>)[i])]))
    ELSE skills

\* JobDescription.__post_init__ on one of the two skill fields:
\* if isinstance(skills, str): skills = [skill.strip() for skill in skills.split(',') if skill.strip()]
NormalizeSkills(skills) ==
    IF IsStr(skills)
    THEN List(StrippedNonEmpty(SplitOn(skills.val, ",", 1, <<>>)))
    ELSE skills

\* JobDescription(...): the dataclass __init__ followed by __post_init__
JobDescription(description, must_have_skills, nice_to_have_skills, experience_level) ==
    [kind |-> "JobDescription",
     description |-> description,
     must_have_skills |-> NormalizeSkills(must_have_skills),
     nice_to_have_skills |-> NormalizeSkills(nice_to_have_skills),
     experience_level |-> experience_level]

Bundle(semantic_similarity, matching_skills, missing_skills, reasoning) ==
    [kind |-> "dict",
     semantic_similarity |-> semantic_similarity,
     matching_skills |-> matching_skills,
     missing_skills |-> missing_skills,
     reasoning |-> reasoning]

\* dict.get(key, default)
get(value, default) == IF value = Absent THEN default ELSE value

\* `x or []`
OrEmptyList(v) == IF Truthy(v) THEN v ELSE List(<<>>)

\* len(x) is defined for lists and strings only
HasLen(v) == v.kind \in {"list", "str"}

Count(S) == Cardinality(S)

(***************************************************************************)
(* _calculate_semantic_score                                               *)
(***************************************************************************)
\* a semantic score that is returned as computed
Unclamped(x) == x

\* max(0, min(100, semantic_score))
ClampSemantic(x) == RMax(Whole(0), RMin(Whole(100), x))

\* a semantic score that takes no penalty for missing skills
SemanticWithoutPenalty(ai_analysis) ==
    IF ai_analysis.kind # "dict" THEN Raise
    ELSE IF ~IsNum(get(ai_analysis.semantic_similarity, Num(Whole(0)))) THEN Raise
    ELSE IF ~HasLen(get(ai_analysis.matching_skills, List(<<>>))) THEN Raise
    ELSE IF ~HasLen(get(ai_analysis.missing_skills, List(<<>>))) THEN Raise
    ELSE Return(ClampSemantic(
            RAdd(RMul(get(ai_analysis.semantic_similarity, Num(Whole(0))).val, Whole(100)),
                 RMin(Whole(10),
                      Whole(2 * Len(get(ai_analysis.matching_skills, List(<<>>)).val))))))

SemanticBody(ai_analysis) ==
    IF ai_analysis.kind # "dict" THEN Raise                 \* None has no .get
    ELSE
    LET semantic_similarity == get(ai_analysis.semantic_similarity, Num(Whole(0)))
        matching == get(ai_analysis.matching_skills, List(<<>>))
        missing == get(ai_analysis.missing_skills, List(<<>>))
    IN  IF ~IsNum(semantic_similarity) THEN Raise          \* None * 100, or str/list in += or min()
        ELSE IF ~HasLen(matching) \/ ~HasLen(missing) THEN Raise   \* len(None)
        ELSE
        LET base == RMul(semantic_similarity.val, Whole(100))
            matching_skills == Len(matching.val)
            missing_skills == Len(missing.val)
            bonus == IF matching_skills > 0
                     THEN (IF matching_skills * 2 < 10 THEN matching_skills * 2 ELSE 10) ELSE 0
            penalty == IF missing_skills > 0
                       THEN (IF missing_skills * 3 < 15 THEN missing_skills * 3 ELSE 15) ELSE 0
            semantic_score == RSub(RAdd(base, Whole(bonus)), Whole(penalty))
        IN  Return(ClampSemantic(semantic_score))

_calculate_semantic_score(ai_analysis) == TryExcept(SemanticBody(ai_analysis), Whole(0))

(***************************************************************************)
(* _calculate_skill_match_score                                            *)
(***************************************************************************)
\* a skill is present only as a substring of the text
DirectMatchOnly(skill, text) == IsSubstring(strip(lower(skill)), text)

_skill_present_in_text(skill, text) ==
    LET skill_lower == strip(lower(skill))
        skill_words == split(skill_lower)
        text_words == Range(split(text))
        matches == Count({i \in 1..Len(skill_words) : skill_words[i] \in text_words})
    IN  IsSubstring(skill_lower, text) \/ matches = Len(skill_words)

AllStr(list) == \A i \in 1..Len(list.val) : IsStr(list.val[i])

\* what the except branch of _calculate_skill_match_score returns
SkillErrorDefault == Whole(0)

SkillMatchBody(resume, job_description) ==
    IF job_description.kind # "JobDescription" THEN Raise
    ELSE
    LET must_have_skills == OrEmptyList(job_description.must_have_skills)
        nice_to_have_skills == OrEmptyList(job_description.nice_to_have_skills)
    IN  IF must_have_skills.val = <<>> /\ nice_to_have_skills.val = <<>> THEN Return(Whole(85))
        ELSE IF resume.kind # "Resume" \/ ~IsStr(resume.content) THEN Raise
        ELSE IF ~AllStr(must_have_skills) \/ ~AllStr(nice_to_have_skills) THEN Raise
        ELSE
        LET resume_lower == lower(resume.content.val)
            must == must_have_skills.val
            nice == nice_to_have_skills.val
            must_have_matches ==
                Count({i \in 1..Len(must) : _skill_present_in_text(must[i].val, resume_lower)})
            nice_to_have_matches ==
                Count({i \in 1..Len(nice) : _skill_present_in_text(nice[i].val, resume_lower)})
            must_have_score == IF must # <<>>
                               THEN RMul(Q(must_have_matches, Len(must)), Q(8, 10))
                               ELSE Q(8, 10)
            nice_to_have_score == IF nice # <<>>
                                  THEN RMul(Q(nice_to_have_matches, Len(nice)), Q(2, 10))
                                  ELSE Q(2, 10)
            total_score == RMul(RAdd(must_have_score, nice_to_have_score), Whole(100))
        IN  Return(RMin(Whole(100), total_score))

_calculate_skill_match_score(resume, job_description) ==
    TryExcept(SkillMatchBody(resume, job_description), SkillErrorDefault)

(***************************************************************************)
(* _calculate_experience_score                                             *)
(***************************************************************************)
Infinity == -1      \* float('inf') as the upper end of a band

level_mapping ==
    [level \in {<<"e","n","t","r","y"," ","l","e","v","e","l">>, <<"m","i","d"," ","l","e","v","e","l">>, <<"s","e","n","i","o","r"," ","l","e","v","e","l">>, <<"e","x","e","c","u","t","i","v","e">>} |->
        CASE level = <<"e","n","t","r","y"," ","l","e","v","e","l">> -> <<0, 2>>
          [] level = <<"m","i","d"," ","l","e","v","e","l">> -> <<2, 5>>
          [] level = <<"s","e","n","i","o","r"," ","l","e","v","e","l">> -> <<5, 10>>
          [] level = <<"e","x","e","c","u","t","i","v","e">> -> <<10, Infinity>>]

IntMax(a, b) == IF a >= b THEN a ELSE b

\* a band score whose penalties have no floor
BandScoreNoFloor(years_experience, min_years, max_years) ==
    IF min_years <= years_experience
       /\ (max_years = Infinity \/ years_experience <= max_years)
    THEN Whole(100)
    ELSE IF years_experience < min_years
    THEN Whole(100 - (min_years - years_experience) * 15)
    ELSE Whole(100 - (years_experience - max_years) * 5)

\* the score for the years found against the band [min_years, max_years]
BandScore(years_experience, min_years, max_years) ==
    IF min_years <= years_experience
       /\ (max_years = Infinity \/ years_experience <= max_years)
    THEN Whole(100)
    ELSE IF years_experience < min_years
    THEN Whole(IntMax(30, 100 - (min_years - years_experience) * 15))
    ELSE Whole(IntMax(70, 100 - (years_experience - max_years) * 5))

\* the score once the years and the lower-cased level are known
LevelScore(years_experience, required_level_lower) ==
    IF required_level_lower \notin DOMAIN level_mapping THEN Whole(75)
    ELSE BandScore(years_experience,
                   level_mapping[required_level_lower][1],
                   level_mapping[required_level_lower][2])

\* job_description.experience_level or ""
LevelOrEmpty(level) == IF Truthy(level) THEN level ELSE Str(<<>>)

ExperienceBody(resume, job_description) ==
    IF resume.kind # "Resume" \/ ~IsStr(resume.content) THEN Raise
    ELSE IF job_description.kind # "JobDescription" THEN Raise
    ELSE IF ~IsStr(LevelOrEmpty(job_description.experience_level)) THEN Raise
    ELSE Return(LevelScore(_extract_years_of_experience(lower(resume.content.val)).val,
                           lower(LevelOrEmpty(job_description.experience_level).val)))

_calculate_experience_score(resume, job_description) ==
    TryExcept(ExperienceBody(resume, job_description), Whole(75))


(***************************************************************************)
(* TfidfVectorizer(stop_words='english', ngram_range=(1, 2),               *)
(* max_features=1000) and cosine_similarity.  The fitted state is the      *)
(* vocabulary with the document frequency of each term; idf is             *)
(* ln((1 + n) / (1 + df)) + 1 with n = 2 documents, so idf^2 is 1 for a    *)
(* term of both documents and 1.975 for a term of one.  The similarity is  *)
(* kept in units of 1/100000, rounded down.                                *)
(***************************************************************************)
\* the words of sklearn's English stop list that occur in the texts used here
ENGLISH_STOP_WORDS == {<<"o","f">>, <<"i","n">>, <<"a","s">>, <<"w","i","t","h">>, <<"a","n","d">>, <<"t","h","e">>, <<"f","o","r">>, <<"t","o">>, <<"i","s">>, <<"a","t">>, <<"o","n">>, <<"o","r">>, <<"a","n">>}

IdfSquaredBoth == 1000    \* 1000 * idf^2 for df = 2
IdfSquaredOne == 1975     \* 1000 * idf^2 for df = 1

\* token_pattern r"(?u)\b\w\w+\b" after lower-casing, stop words removed
Tokenize(text) ==
    SelectSeq(Runs(lower(text), 1, <<>>, "word"),
              LAMBDA w : Len(w) >= 2 /\ w \notin ENGLISH_STOP_WORDS)

\* unigrams and bigrams of a document
Ngrams(text) ==
    LET toks == Tokenize(text)
    IN  IF toks = <<>> THEN <<>>
        ELSE Tuple([i \in 1..Len(toks) |-> <<toks[i]>>])
             \o Tuple([i \in 1..(Len(toks) - 1) |-> <<toks[i], toks[i + 1]>>])

TermCount(t, terms) == Count({i \in 1..Len(terms) : terms[i] = t})

Unfitted == [fitted |-> FALSE]

\* the state fit() leaves in the vectorizer
Fit(resume_text, jd_text) ==
    LET r == Range(Ngrams(resume_text))
        j == Range(Ngrams(jd_text))
    IN  [fitted |-> TRUE,
         df |-> [t \in r \cup j |-> IF t \in r /\ t \in j THEN 2 ELSE 1]]

RECURSIVE SetSum(_, _)
SetSum(S, f) ==
    IF S = {} THEN 0
    ELSE LET x == CHOOSE y \in S : TRUE IN f[x] + SetSum(S \ {x}, f)

CeilSqrt(x) == LET r == ISqrt(x) IN IF r * r = x THEN r ELSE r + 1

\* floor(n * 10^k / d), digit by digit
RECURSIVE LongDiv(_, _, _)
LongDiv(n, d, k) ==
    IF k = 0 THEN n \div d
    ELSE (n \div d) * (10 ^ k) + LongDiv((n % d) * 10, d, k - 1)

\* floor(100000 * dot / sqrt(a * b)) for 0 < dot <= sqrt(a * b)
CosineUnits(dot, a, b) ==
    LET root == ISqrt(a * b)
    IN  IF root * root = a * b THEN LongDiv(dot, root, 5)
        ELSE LongDiv(LongDiv(dot, CeilSqrt(a * 10000), 5), CeilSqrt(b * 10000), 4)

\* transform() with the fitted state, then cosine_similarity of the two rows
TransformCosine(vec, resume_text, jd_text) ==
    LET vocab == DOMAIN vec.df
        rt == Ngrams(resume_text)
        jt == Ngrams(jd_text)
        w == [t \in vocab |-> IF vec.df[t] = 2 THEN IdfSquaredBoth ELSE IdfSquaredOne]
        dot == SetSum(vocab, [t \in vocab |-> TermCount(t, rt) * TermCount(t, jt) * w[t]])
        a == SetSum(vocab, [t \in vocab |-> TermCount(t, rt) * TermCount(t, rt) * w[t]])
        b == SetSum(vocab, [t \in vocab |-> TermCount(t, jt) * TermCount(t, jt) * w[t]])
    IN  IF a = 0 \/ b = 0 THEN Q(0, 1)
        ELSE Q(CosineUnits(dot, a, b), 100000)

\* a vectorizer that keeps the vocabulary of its first fit
FitOnce(vec, resume_text, jd_text) ==
    IF vec.fitted THEN vec ELSE Fit(resume_text, jd_text)

\* self.tfidf_vectorizer.fit_transform([resume_text, jd_text]): the state after the fit
FitTransform(vec, resume_text, jd_text) == Fit(resume_text, jd_text)

\* returns the similarity and the vectorizer's state after the call
SimilarityWith(self, fitted, resume_text, jd_text) ==
    IF DOMAIN fitted.df = {}
    THEN [val |-> Q(0, 1), vec |-> self.vec]       \* ValueError: empty vocabulary
    ELSE [val |-> TransformCosine(fitted, resume_text, jd_text), vec |-> fitted]

_calculate_tfidf_similarity(self, resume_text, jd_text) ==
    IF ~self.sklearn THEN [val |-> Q(0, 1), vec |-> self.vec]
    ELSE SimilarityWith(self, FitTransform(self.vec, resume_text, jd_text),
                        resume_text, jd_text)


(***************************************************************************)
(* fuzzywuzzy: process.extractOne(keyword, tokens, scorer=partial_ratio),  *)
(* with difflib.SequenceMatcher as the matcher.                            *)
(***************************************************************************)
SetMax(S) == CHOOSE v \in S : \A w \in S : w <= v
SetMin(S) == CHOOSE v \in S : \A w \in S : v <= w

RECURSIVE CommonPrefix(_, _, _, _, _, _)
CommonPrefix(a, i, ahi, b, j, bhi) ==
    IF i > ahi \/ j > bhi THEN 0
    ELSE IF a[i] # b[j] THEN 0
    ELSE 1 + CommonPrefix(a, i + 1, ahi, b, j + 1, bhi)

\* SequenceMatcher.find_longest_match: longest block, then earliest in a, then earliest in b
find_longest_match(a, alo, ahi, b, blo, bhi) ==
    LET blocks == {<<i, j, CommonPrefix(a, i, ahi, b, j, bhi)>> :
                        i \in alo..ahi, j \in blo..bhi}
        bestsize == SetMax({m[3] : m \in blocks})
        besti == SetMin({m[1] : m \in {o \in blocks : o[3] = bestsize}})
        bestj == SetMin({m[2] : m \in {o \in blocks : o[3] = bestsize /\ o[1] = besti}})
    IN  IF blocks = {} THEN <<alo, blo, 0>> ELSE <<besti, bestj, bestsize>>

\* SequenceMatcher.get_matching_blocks, without the terminating sentinel
RECURSIVE MatchingBlocks(_, _, _, _, _, _)
MatchingBlocks(a, alo, ahi, b, blo, bhi) ==
    LET m == find_longest_match(a, alo, ahi, b, blo, bhi)
    IN  IF m[3] = 0 THEN {}
        ELSE {m}
             \cup MatchingBlocks(a, alo, m[1] - 1, b, blo, m[2] - 1)
             \cup MatchingBlocks(a, m[1] + m[3], ahi, b, m[2] + m[3], bhi)

BlockSizes(blocks) == SetSum(blocks, [m \in blocks |-> m[3]])

\* int(round(100 * SequenceMatcher(None, a, b).ratio()))
RatioPercent(a, b) ==
    IF Len(a) + Len(b) = 0 THEN 100
    ELSE round(Q(200 * BlockSizes(MatchingBlocks(a, 1, Len(a), b, 1, Len(b))),
                 Len(a) + Len(b)))

IntMin(a, b) == IF a <= b THEN a ELSE b

\* fuzz.partial_ratio(s1, s2)
partial_ratio(s1, s2) ==
    IF s1 = <<>> \/ s2 = <<>> THEN 0
    ELSE
    LET shorter == IF Len(s1) <= Len(s2) THEN s1 ELSE s2
        longer == IF Len(s1) <= Len(s2) THEN s2 ELSE s1
        blocks == MatchingBlocks(shorter, 1, Len(shorter), longer, 1, Len(longer))
        starts == {IntMax(0, m[2] - m[1]) : m \in blocks}
                  \cup {Len(longer) - Len(shorter)}
        window(st) == SubSeq(longer, st + 1, IntMin(Len(longer), st + Len(shorter)))
    IN  SetMax({RatioPercent(shorter, window(st)) : st \in starts})

\* utils.full_process: non-alphanumerics to blanks, lower-case, strip
full_process(s) ==
    strip(lower(Tuple([i \in 1..Len(s) |-> IF IsWordChar(s[i]) THEN s[i] ELSE " "])))

\* the score of process.extractOne(query, choices, scorer=fuzz.partial_ratio);
\* -1 stands for the None it returns when there is no choice
extractOneScore(query, choices) ==
    IF choices = <<>> THEN -1
    ELSE SetMax({partial_ratio(full_process(query), full_process(choices[i])) :
                    i \in 1..Len(choices)})

(***************************************************************************)
(* _calculate_keyword_score and its sub-signals                            *)
(***************************************************************************)
stop_words == {<<"t","h","e">>, <<"a","n","d">>, <<"o","r">>, <<"b","u","t">>, <<"i","n">>, <<"o","n">>, <<"a","t">>, <<"t","o">>, <<"f","o","r">>, <<"o","f">>, <<"w","i","t","h">>,
    <<"b","y">>, <<"f","r","o","m">>, <<"u","p">>, <<"a","b","o","u","t">>, <<"i","n","t","o">>, <<"t","h","r","o","u","g","h">>, <<"d","u","r","i","n","g">>, <<"b","e","f","o","r","e">>,
    <<"a","f","t","e","r">>, <<"a","b","o","v","e">>, <<"b","e","l","o","w">>, <<"b","e","t","w","e","e","n">>, <<"a","m","o","n","g">>, <<"i","s">>, <<"a","r","e">>, <<"w","a","s">>,
    <<"w","e","r","e">>, <<"b","e">>, <<"b","e","e","n">>, <<"b","e","i","n","g">>, <<"h","a","v","e">>, <<"h","a","s">>, <<"h","a","d">>, <<"d","o">>, <<"d","o","e","s">>,
    <<"d","i","d">>, <<"w","i","l","l">>, <<"w","o","u","l","d">>, <<"c","o","u","l","d">>, <<"s","h","o","u","l","d">>, <<"m","a","y">>, <<"m","i","g","h","t">>, <<"m","u","s","t">>,
    <<"c","a","n">>, <<"s","h","a","l","l">>, <<"t","h","i","s">>, <<"t","h","a","t">>, <<"t","h","e","s","e">>, <<"t","h","o","s","e">>}

AllAlpha(w) == \A i \in 1..Len(w) : IsAlpha(w[i])

\* re.findall(r'\b[a-zA-Z]+\b', text.lower()), filtered and de-duplicated
_extract_important_keywords(text) ==
    LET words == Runs(lower(text), 1, <<>>, "word")
    IN  {words[i] : i \in {k \in 1..Len(words) :
            AllAlpha(words[k]) /\ Len(words[k]) > 3 /\ words[k] \notin stop_words}}

FuzzyThreshold == 80

\* a credit that takes a fuzzy match for a full one
FullCreditForFuzzy(self, keyword, resume_text) ==
    IF IsSubstring(keyword, resume_text) THEN 10
    ELSE IF self.fuzzywuzzy
            /\ extractOneScore(keyword, split(resume_text)) >= FuzzyThreshold THEN 10
    ELSE 0

\* the credit of one keyword, in tenths
KeywordCredit(self, keyword, resume_text) ==
    IF IsSubstring(keyword, resume_text) THEN 10
    ELSE IF self.fuzzywuzzy
            /\ extractOneScore(keyword, split(resume_text)) >= FuzzyThreshold THEN 7
    ELSE 0

_calculate_keyword_presence(self, resume_text, jd_text) ==
    LET jd_keywords == _extract_important_keywords(jd_text)
        total_keywords == Count(jd_keywords)
        matches == SetSum(jd_keywords,
                          [k \in jd_keywords |-> KeywordCredit(self, k, resume_text)])
    IN  IF jd_keywords = {} THEN Q(0, 1) ELSE Q(matches, 10 * total_keywords)

\* a credit that knows no partial match
CreditWithoutPartial(skill, resume_text) ==
    IF IsSubstring(strip(lower(skill)), resume_text) THEN 10
    ELSE IF \A w \in Range(split(strip(lower(skill)))) : w \in Range(split(resume_text)) THEN 8
    ELSE 0

\* the credit of one required skill, in tenths
SkillCredit(skill, resume_text) ==
    LET skill_lower == strip(lower(skill))
        skill_words == split(skill_lower)
        resume_words == Range(split(resume_text))
        word_matches == Count({i \in 1..Len(skill_words) : skill_words[i] \in resume_words})
    IN  IF IsSubstring(skill_lower, resume_text) THEN 10
        ELSE IF word_matches = Len(skill_words) THEN 8
        ELSE IF word_matches > 0 THEN 4
        ELSE 0

RECURSIVE SeqSum(_)
SeqSum(q) == IF q = <<>> THEN 0 ELSE Head(q) + SeqSum(Tail(q))

\* required_skills is a sequence of strings
_calculate_skill_keyword_match(resume_text, required_skills) ==
    IF required_skills = <<>> THEN Q(1, 1)
    ELSE Q(SeqSum(Tuple([i \in 1..Len(required_skills) |->
                      SkillCredit(required_skills[i].val, resume_text)])),
           10 * Len(required_skills))

\* a blend that gives the three sub-signals the same weight
EqualBlend(tfidf_score, keyword_score, skill_score) ==
    RMin(Whole(100),
         RMul(RAdd(RAdd(tfidf_score, keyword_score), skill_score), Q(100, 3)))

\* (tfidf_score * 0.4 + keyword_score * 0.3 + skill_score * 0.3) * 100, capped at 100
CombinedScore(tfidf_score, keyword_score, skill_score) ==
    RMin(Whole(100),
         RMul(RAdd(RAdd(RMul(tfidf_score, Q(4, 10)), RMul(keyword_score, Q(3, 10))),
                   RMul(skill_score, Q(3, 10))),
              Whole(100)))

\* the try block from the TF-IDF similarity on; tfidf is that similarity
\* together with the vectorizer's state after it
KeywordSignals(self, resume_text, jd_text, all_required_skills, tfidf) ==
    IF \E i \in 1..Len(all_required_skills) : ~IsStr(all_required_skills[i])
    THEN [raised |-> TRUE, vec |-> tfidf.vec]      \* skill.lower() after the fit
    ELSE [raised |-> FALSE,
          val |-> CombinedScore(tfidf.val,
                                _calculate_keyword_presence(self, resume_text, jd_text),
                                _calculate_skill_keyword_match(resume_text, all_required_skills)),
          vec |-> tfidf.vec]

\* the body of the try block: outcome, and the vectorizer's state afterwards
KeywordBody(self, resume, job_description) ==
    IF resume.kind # "Resume" \/ ~IsStr(resume.content)
    THEN [raised |-> TRUE, vec |-> self.vec]
    ELSE IF job_description.kind # "JobDescription" \/ ~IsStr(job_description.description)
    THEN [raised |-> TRUE, vec |-> self.vec]
    ELSE IF ~IsList(OrEmptyList(job_description.must_have_skills))
            \/ ~IsList(OrEmptyList(job_description.nice_to_have_skills))
    THEN [raised |-> TRUE, vec |-> self.vec]       \* str + list
    ELSE KeywordSignals(self,
                        lower(resume.content.val),
                        lower(job_description.description.val),
                        OrEmptyList(job_description.must_have_skills).val
                            \o OrEmptyList(job_description.nice_to_have_skills).val,
                        _calculate_tfidf_similarity(self, lower(resume.content.val),
                                                    lower(job_description.description.val)))

\* the try/except around the body
KeywordOutcome(body) == [out |-> TryExcept(body, Whole(0)), vec |-> body.vec]

\* `out` is what the caller gets, `vec` the vectorizer's state afterwards
_calculate_keyword_score(self, resume, job_description) ==
    KeywordOutcome(KeywordBody(self, resume, job_description))


(***************************************************************************)
(* _calculate_confidence_score                                             *)
(***************************************************************************)
\* len(text.split()): the number of maximal runs of non-space characters
WordCount(text) ==
    Count({i \in 1..Len(text) : ~IsSpace(text[i]) /\ (i = 1 \/ IsSpace(text[i - 1]))})

\* a length factor that leaves out 200 and 800 words
ResumeFactorOpen(resume_length) ==
    IF 200 < resume_length /\ resume_length < 800 THEN Q(9, 10) ELSE Q(6, 10)

\* resume quality factor
ResumeFactor(resume_length) ==
    IF 200 <= resume_length /\ resume_length <= 800 THEN Q(9, 10) ELSE Q(6, 10)

\* job description completeness
JobFactor(job_description) ==
    IF Truthy(job_description.must_have_skills) /\ Truthy(job_description.description)
    THEN Q(9, 10) ELSE Q(7, 10)

\* dict.get(key): None for a key the dict does not have
getOrNone(value) == get(value, None)

\* AI analysis quality; len() of the matching skills is taken only when the
\* reasoning is truthy
AnalysisFactor(ai_analysis) ==
    IF ~Truthy(getOrNone(ai_analysis.reasoning)) THEN Return(Q(8, 10))
    ELSE IF ~HasLen(get(ai_analysis.matching_skills, List(<<>>))) THEN Raise
    ELSE IF Len(get(ai_analysis.matching_skills, List(<<>>)).val) > 0 THEN Return(Q(95, 100))
    ELSE Return(Q(8, 10))

\* round(x, 1)
RoundToTenth(x) == Q(round(RMul(x, Whole(10))), 10)

RECURSIVE RSum(_)
RSum(q) == IF q = <<>> THEN Whole(0) ELSE RAdd(Head(q), RSum(Tail(q)))

\* round(sum(confidence_factors) / len(confidence_factors) * 100, 1)
AverageConfidence(confidence_factors) ==
    RoundToTenth(RMul(RMul(RSum(confidence_factors), Q(1, Len(confidence_factors))),
                      Whole(100)))

ConfidenceBody(resume, job_description, ai_analysis) ==
    IF resume.kind # "Resume" \/ ~IsStr(resume.content) THEN Raise
    ELSE IF job_description.kind # "JobDescription" THEN Raise
    ELSE IF ai_analysis.kind # "dict" THEN Raise
    ELSE IF AnalysisFactor(ai_analysis).raised THEN Raise
    ELSE Return(AverageConfidence(<<ResumeFactor(WordCount(resume.content.val)),
                                    JobFactor(job_description),
                                    AnalysisFactor(ai_analysis).val>>))

\* a confidence estimate whose failure default is 0.0
ConfidenceOrZero(resume, job_description, ai_analysis) ==
    TryExcept(ConfidenceBody(resume, job_description, ai_analysis), Whole(0))

_calculate_confidence_score(resume, job_description, ai_analysis) ==
    TryExcept(ConfidenceBody(resume, job_description, ai_analysis), Whole(75))

(***************************************************************************)
(* calculate_detailed_metrics.                                             *)
(***************************************************************************)
sections ==
    {<<"e","x","p","e","r","i","e","n","c","e">>,
     <<"e","d","u","c","a","t","i","o","n">>,
     <<"s","k","i","l","l","s">>,
     <<"p","r","o","j","e","c","t","s">>,
     <<"c","e","r","t","i","f","i","c","a","t","i","o","n","s">>,
     <<"a","c","h","i","e","v","e","m","e","n","t","s">>,
     <<"s","u","m","m","a","r","y">>,
     <<"o","b","j","e","c","t","i","v","e">>,
     <<"c","o","n","t","a","c","t">>}

\* sum(1 for section in sections if section in text_lower)
_count_resume_sections(resume_text) ==
    Count({section \in sections : IsSubstring(section, lower(resume_text))})

\* len((job_description.must_have_skills or []) + (job_description.nice_to_have_skills or []))
SkillCount(job_description) ==
    Len(OrEmptyList(job_description.must_have_skills).val)
        + Len(OrEmptyList(job_description.nice_to_have_skills).val)

_assess_jd_complexity(job_description) ==
    IF SkillCount(job_description) > 10 THEN "High"
    ELSE IF SkillCount(job_description) > 5 THEN "Medium"
    ELSE "Low"

\* len(ai_analysis.get(key, [])): len() raises on None
LenOfGet(value) ==
    IF HasLen(get(value, List(<<>>))) THEN Return(Len(get(value, List(<<>>)).val)) ELSE Raise

\* metrics = {} filled key by key
Metrics(resume, job_description, ai_analysis) ==
    [resume_length |-> WordCount(resume.content.val),
     sections_identified |-> _count_resume_sections(resume.content.val),
     jd_complexity |-> _assess_jd_complexity(job_description),
     exact_skill_matches |-> LenOfGet(ai_analysis.matching_skills).val,
     missing_critical_skills |-> LenOfGet(ai_analysis.missing_skills).val,
     confidence_score |-> _calculate_confidence_score(resume, job_description, ai_analysis).val]

\* the try body: it raises where an argument is None or not of its type
MetricsBody(resume, job_description, ai_analysis) ==
    IF resume.kind # "Resume" \/ ~IsStr(resume.content) THEN Raise
    ELSE IF job_description.kind # "JobDescription" THEN Raise
    ELSE IF ~IsList(OrEmptyList(job_description.must_have_skills)) THEN Raise
    ELSE IF ~IsList(OrEmptyList(job_description.nice_to_have_skills)) THEN Raise
    ELSE IF ai_analysis.kind # "dict" THEN Raise
    ELSE IF LenOfGet(ai_analysis.matching_skills).raised THEN Raise
    ELSE IF LenOfGet(ai_analysis.missing_skills).raised THEN Raise
    ELSE Return(Metrics(resume, job_description, ai_analysis))

EmptyMetrics == [kind |-> "empty"]

\* except Exception: return {}
calculate_detailed_metrics(resume, job_description, ai_analysis) ==
    TryExcept(MetricsBody(resume, job_description, ai_analysis), EmptyMetrics).val

(***************************************************************************)
(* What the calls leave in their arguments.  The sub-scorers read the      *)
(* analysis bundle with dict.get and add the two skill lists with `+`;     *)
(* neither writes to its operand.                                          *)
(***************************************************************************)
\* d.setdefault(key, default): a missing key is stored with the default
DictAfterSetDefault(d, keys, default) ==
    IF d.kind # "dict" THEN d
    ELSE [key \in DOMAIN d |-> IF key \in keys /\ d[key] = Absent THEN default ELSE d[key]]

\* d.get(key, default) for each key of `keys`: the dict is left as it is
DictAfterGet(d, keys, default) == d

\* (must_have_skills or []) + (nice_to_have_skills or []): a new list; the
\* operands are left as they are
JobAfterAdd(job_description) == job_description

(***************************************************************************)
(* The arguments the engine is called with.                                *)
(***************************************************************************)
MaxBundleSkills == 6      \* longest matching_skills / missing_skills list of a bundle

ResumeTexts ==
    {<<>>,
     <<"P","y","t","h","o","n"," ","d","e","v","e","l","o","p","e","r"," ","w","i","t","h"," ","5"," ","y","e","a","r","s"," ","o","f"," ","e","x","p","e","r","i","e","n","c","e"," ","i","n"," ","b","a","c","k","e","n","d">>,
     <<"w","o","r","k","e","d"," ","a","s"," ","j","a","v","a"," ","e","n","g","i","n","e","e","r"," ","r","o","l","e">>,
     <<"1","2","+"," ","y","e","a","r","s"," ","p","r","o","f","e","s","s","i","o","n","a","l"," ","s","q","l"," ","a","n","d"," ","p","y","t","h","o","n">>}

Resumes == {None} \cup {Resume(Str(t)) : t \in ResumeTexts}

Skills(names) == List(Tuple([i \in 1..Len(names) |-> Str(names[i])]))

Jobs ==
    {None,
     JobDescription(Str(<<"b","a","c","k","e","n","d"," ","p","y","t","h","o","n"," ","d","e","v","e","l","o","p","e","r">>),
                    Skills(<<<<"P","y","t","h","o","n">>>>), Skills(<<>>), Str(<<"S","e","n","i","o","r"," ","L","e","v","e","l">>)),
     JobDescription(Str(<<"s","e","n","i","o","r"," ","j","a","v","a"," ","e","n","g","i","n","e","e","r"," ","w","i","t","h"," ","s","q","l">>),
                    Skills(<<<<"j","a","v","a">>, <<"s","q","l">>>>), Skills(<<<<"m","a","c","h","i","n","e"," ","l","e","a","r","n","i","n","g">>>>), Str(<<"M","i","d"," ","L","e","v","e","l">>)),
     JobDescription(Str(<<>>), Skills(<<>>), Skills(<<>>), None),
     JobDescription(Str(<<"p","y","t","h","o","n"," ","d","e","v","e","l","o","p","e","r","s">>), None, None, Str(<<"E","x","e","c","u","t","i","v","e">>)),
     JobDescription(Str(<<"j","a","v","a">>), List(<<None>>), Skills(<<>>), Str(<<"E","n","t","r","y"," ","L","e","v","e","l">>)),
     JobDescription(Str(<<"j","a","v","a">>), Skills(<<<<"r","u","s","t">>>>), Skills(<<<<"g","o">>>>), Str(<<"E","x","e","c","u","t","i","v","e">>))}

SkillList(n) == List(Tuple([i \in 1..n |-> Str(<<"s">>)]))

Reasoning == Str(<<"o", "k">>)

Bundles ==
    {None,
     Bundle(Absent, Absent, Absent, Absent),
     Bundle(None, SkillList(1), SkillList(1), Reasoning),
     Bundle(Str(<<"0", ".", "5">>), SkillList(0), SkillList(0), Absent),
     Bundle(Num(Q(1, 2)), None, SkillList(0), Absent),
     Bundle(Num(Q(6, 10)), SkillList(3), SkillList(2), Reasoning),
     Bundle(Num(Q(1, 1)), SkillList(MaxBundleSkills), SkillList(0), Reasoning),
     Bundle(Num(Q(1, 10)), SkillList(0), SkillList(MaxBundleSkills), Reasoning),
     Bundle(Num(Q(12, 10)), SkillList(0), SkillList(0), Absent),
     Bundle(Num(Q(93, 100)), SkillList(1), SkillList(0), Reasoning)}

(***************************************************************************)
(* The sub-scorers tabulated over these arguments.  A table holds, for     *)
(* every argument tuple, the value of the operator it is built from; it is *)
(* computed once.                                                          *)
(***************************************************************************)
Tabulate(f) == f @@ <<>>

JdTexts == {j.description.val : j \in {d \in Jobs \ {None} : IsStr(d.description)}}

\* every state the vectorizer of an engine can be in
VectorizerStates ==
    {Unfitted} \cup {Fit(lower(r), lower(j)) : r \in ResumeTexts, j \in JdTexts}

KeywordScoreOf ==
    Tabulate([sklearn \in BOOLEAN, fuzzywuzzy \in BOOLEAN, vec \in VectorizerStates,
              resume \in Resumes, job_description \in Jobs |->
                _calculate_keyword_score(
                    [sklearn |-> sklearn, fuzzywuzzy |-> fuzzywuzzy, vec |-> vec],
                    resume, job_description)])

SkillMatchScoreOf ==
    Tabulate([resume \in Resumes, job_description \in Jobs |->
                _calculate_skill_match_score(resume, job_description)])

ExperienceScoreOf ==
    Tabulate([resume \in Resumes, job_description \in Jobs |->
                _calculate_experience_score(resume, job_description)])

(***************************************************************************)
(* ScoringEngine.__init__ and calculate_hybrid_score                       *)
(***************************************************************************)
\* weights that leave the experience score out
WeightsWithoutExperience ==
    [keyword_score |-> Q(5, 10),
     semantic_score |-> Q(35, 100),
     skill_match |-> Q(15, 100),
     experience_match |-> Q(0, 1)]

DefaultWeights ==
    [keyword_score |-> Q(4, 10),
     semantic_score |-> Q(35, 100),
     skill_match |-> Q(15, 100),
     experience_match |-> Q(1, 10)]

\* ScoringEngine(): the two try-imports decide which libraries the engine has
ScoringEngine(sklearn, fuzzywuzzy) ==
    [sklearn |-> sklearn,
     fuzzywuzzy |-> fuzzywuzzy,
     weights |-> DefaultWeights,
     vec |-> Unfitted]

\* a mapping that puts the boundary scores 75 and 50 one class lower
VerdictAbove(score) ==
    IF score > 75 THEN "High"
    ELSE IF score > 50 THEN "Medium"
    ELSE "Low"

_determine_verdict(score) ==
    IF score >= 75 THEN "High"
    ELSE IF score >= 50 THEN "Medium"
    ELSE "Low"

\* max(0, min(100, x))
ClampScore(x) == IntMax(0, IntMin(100, x))

\* a weighted sum of the sub-scores as they are reported, rounded
WeightedSumOfRounded(self, keyword_score, semantic_score, skill_match_score, experience_score) ==
    RAdd(RAdd(RAdd(RMul(Whole(round(keyword_score)), self.weights.keyword_score),
                   RMul(Whole(round(semantic_score)), self.weights.semantic_score)),
              RMul(Whole(round(skill_match_score)), self.weights.skill_match)),
         RMul(Whole(round(experience_score)), self.weights.experience_match))

\* keyword_score * w['keyword_score'] + ... + experience_score * w['experience_match']
WeightedSum(self, keyword_score, semantic_score, skill_match_score, experience_score) ==
    RAdd(RAdd(RAdd(RMul(keyword_score, self.weights.keyword_score),
                   RMul(semantic_score, self.weights.semantic_score)),
              RMul(skill_match_score, self.weights.skill_match)),
         RMul(experience_score, self.weights.experience_match))

SubScorers == {"keyword", "semantic", "skill", "experience"}

\* final_score, the rounded sub-scores, the verdict and the weights
ScoreResult(self, keyword_score, semantic_score, skill_match_score, experience_score, final_score) ==
    [kind |-> "returned",
     final_score |-> final_score,
     keyword_score |-> round(keyword_score),
     semantic_score |-> round(semantic_score),
     skill_match_score |-> round(skill_match_score),
     experience_score |-> round(experience_score),
     verdict |-> _determine_verdict(final_score),
     score_breakdown |->
        [keyword_weight |-> self.weights.keyword_score,
         semantic_weight |-> self.weights.semantic_score,
         skill_weight |-> self.weights.skill_match,
         experience_weight |-> self.weights.experience_match]]

\* the try block once the four sub-scorers have handed back their results
Outcome(self, sub) ==
    IF \E n \in SubScorers : sub[n].raised
    THEN [kind |-> "raised", message |-> "Score calculation failed"]
    ELSE ScoreResult(self, sub.keyword.val, sub.semantic.val, sub.skill.val,
                     sub.experience.val,
                     ClampScore(round(WeightedSum(self, sub.keyword.val, sub.semantic.val,
                                                  sub.skill.val, sub.experience.val))))

\* The engine after the call, and the record of the call: its arguments, the
\* vectorizer state the engine entered the call with, what each sub-scorer
\* handed back (`failed`: its except branch was taken), and the outcome.
CallRecord(self, resume, job_description, ai_analysis, vec, sub) ==
    [engine |-> [self EXCEPT !.vec = vec],
     call |-> [kind |-> "call", resume |-> resume, job_description |-> job_description,
               ai_analysis |-> ai_analysis, before |-> self.vec,
               sub |-> sub, outcome |-> Outcome(self, sub)]]

\* keyword is the keyword sub-scorer's result with the vectorizer's state
SubScores(keyword, semantic, skill, experience) ==
    [keyword |-> keyword.out, semantic |-> semantic,
     skill |-> skill, experience |-> experience]

calculate_hybrid_score(self, resume, job_description, ai_analysis) ==
    CallRecord(self, resume, job_description, ai_analysis,
               KeywordScoreOf[self.sklearn, self.fuzzywuzzy, self.vec,
                              resume, job_description].vec,
               SubScores(KeywordScoreOf[self.sklearn, self.fuzzywuzzy, self.vec,
                                        resume, job_description],
                         _calculate_semantic_score(ai_analysis),
                         SkillMatchScoreOf[resume, job_description],
                         ExperienceScoreOf[resume, job_description]))

(***************************************************************************)
(* models.MatchingCriteria.  The weights are decimal literals, held here   *)
(* in thousandths; the thresholds are integers.  total_weight is a double: *)
(* the three additions can leave it an ulp or two away from the double     *)
(* nearest the decimal sum.  `drift` is the sign of that deviation; it     *)
(* is 0 whenever the additions are exact.                                  *)
(***************************************************************************)
One == 1000               \* 1.0, in thousandths
Tolerance == 10           \* 0.01, in thousandths

\* a check that accepts nothing but a sum of exactly 1.0
WeightSumNotOne(total, drift) == total # One

\* abs(total_weight - 1.0) > 0.01 on doubles.  Away from the boundary the
\* decimal sum decides.  On it, the doubles 0.99 and 1.01 are 8.9e-18 further
\* from 1.0 than the double 0.01 is from 0, so the test is true unless the
\* additions moved total_weight towards 1.0.
WeightSumRejected(total, drift) ==
    LET off == Abs(total - One)
    IN  IF off # Tolerance THEN off > Tolerance
        ELSE IF total < One THEN drift <= 0 ELSE drift >= 0

\* not (0 <= self.minimum_score_threshold <= 100)
MinimumRejected(minimum) == ~(0 <= minimum /\ minimum <= 100)

\* a check that compares the medium and high thresholds only
UpperOrderRejected(minimum, medium, high) == ~(medium <= high /\ high <= 100)

\* not (self.minimum_score_threshold <= self.medium_score_threshold
\*      <= self.high_score_threshold <= 100)
OrderRejected(minimum, medium, high) ==
    ~(minimum <= medium /\ medium <= high /\ high <= 100)

ValueError(message) == [kind |-> "raised", error |-> "ValueError", message |-> message]

\* MatchingCriteria(...): the dataclass __init__ followed by __post_init__;
\* the fields are in the order the class declares them
MatchingCriteria(keyword_weight, semantic_weight, skill_weight, experience_weight, minimum_score_threshold, high_score_threshold, medium_score_threshold, drift) ==
    LET total_weight == keyword_weight + semantic_weight + skill_weight + experience_weight
    IN  IF WeightSumRejected(total_weight, drift)
        THEN ValueError("Weights must sum to 1.0")
        ELSE IF MinimumRejected(minimum_score_threshold)
        THEN ValueError("Minimum score threshold must be between 0 and 100")
        ELSE IF OrderRejected(minimum_score_threshold, medium_score_threshold,
                              high_score_threshold)
        THEN ValueError("Score thresholds must be in ascending order")
        ELSE [kind |-> "MatchingCriteria",
              keyword_weight |-> keyword_weight,
              semantic_weight |-> semantic_weight,
              skill_weight |-> skill_weight,
              experience_weight |-> experience_weight,
              minimum_score_threshold |-> minimum_score_threshold,
              high_score_threshold |-> high_score_threshold,
              medium_score_threshold |-> medium_score_threshold]

\* MatchingCriteria(): every field at its default
DefaultCriteria == MatchingCriteria(400, 350, 150, 100, 40, 75, 50, 0)

\* a mapping of the criteria that needs more than the threshold
get_verdict_above(self, score) ==
    IF score > self.high_score_threshold THEN "High"
    ELSE IF score > self.medium_score_threshold THEN "Medium"
    ELSE "Low"

get_verdict_for_score(self, score) ==
    IF score >= self.high_score_threshold THEN "High"
    ELSE IF score >= self.medium_score_threshold THEN "Medium"
    ELSE "Low"

(***************************************************************************)
(* models.AnalysisResult: of its fields, the score and the verdict.        *)
(***************************************************************************)
valid_verdicts == {"High", "Medium", "Low"}

\* an AnalysisResult that stores what it is given
StoredAsGiven(relevance_score, verdict) ==
    [kind |-> "AnalysisResult", relevance_score |-> relevance_score, verdict |-> verdict]

\* AnalysisResult(..., relevance_score, verdict): __init__ and __post_init__
AnalysisResult(relevance_score, verdict) ==
    LET clamped == IntMax(0, IntMin(100, relevance_score))
    IN  [kind |-> "AnalysisResult",
         relevance_score |-> clamped,
         verdict |-> IF verdict \notin valid_verdicts
                     THEN (IF clamped >= 75 THEN "High"
                           ELSE IF clamped >= 50 THEN "Medium"
                           ELSE "Low")
                     ELSE verdict]

(***************************************************************************)
(* The state machine.  A caller invokes calculate_hybrid_score with        *)
(* arguments of its choice; the call then runs to its outcome.             *)
(***************************************************************************)
NoCall == [kind |-> "none"]
NoProbe == [kind |-> "none"]
NoCriteria == [kind |-> "none"]
NoPage == [pc |-> "none"]

Init ==
    /\ page = NoPage
    /\ \E sklearn \in BOOLEAN, fuzzywuzzy \in BOOLEAN :
            engine = ScoringEngine(sklearn, fuzzywuzzy)
    /\ call = NoCall
    /\ probe = NoProbe
    /\ criteria = NoCriteria

\* the caller passes its arguments
Invoke ==
    /\ call.kind # "pending"
    /\ \E resume \in Resumes, job_description \in Jobs, ai_analysis \in Bundles :
            call' = [kind |-> "pending", resume |-> resume,
                     job_description |-> job_description, ai_analysis |-> ai_analysis]
    /\ UNCHANGED <<engine, probe, criteria, page>>

\* calculate_hybrid_score runs on the engine
CalculateHybridScore ==
    /\ call.kind = "pending"
    /\ LET c == calculate_hybrid_score(engine, call.resume, call.job_description,
                                       call.ai_analysis)
       IN  /\ call' = c.call
           /\ engine' = c.engine
    /\ UNCHANGED <<probe, criteria, page>>

Next == Invoke \/ CalculateHybridScore

Spec == Init /\ [][Next]_vars

(***************************************************************************)
(* Constructing a MatchingCriteria.  The arguments are drawn first; the    *)
(* construction then runs on them.                                         *)
(***************************************************************************)
WeightTuples ==
    {<<400, 350, 150, 100>>,       \* the defaults
     <<390, 350, 150, 100>>,       \* 0.99
     <<410, 350, 150, 100>>,       \* 1.01
     <<389, 350, 150, 100>>,       \* 0.989
     <<411, 350, 150, 100>>,       \* 1.011
     <<395, 350, 150, 100>>,       \* 0.995
     <<405, 350, 150, 100>>,       \* 1.005
     <<990, 0, 0, 0>>,
     <<0, 0, 1010, 0>>,
     <<0, 1000, 0, 0>>,
     <<1100, 350, 150, -600>>,     \* 1.0 with weights outside [0, 1]
     <<250, 250, 250, 250>>,
     <<300, 300, 300, 300>>,       \* 1.2
     <<0, 0, 0, 0>>,
     <<500, 350, 150, 100>>}       \* 1.1

\* the additions are exact when at most one weight is not zero
Drifts(w) == IF Cardinality({i \in 1..4 : w[i] # 0}) <= 1 THEN {0} ELSE {-1, 0, 1}

Minimums == {-1, 0, 40, 50, 100, 101}
Mediums == {0, 40, 50, 100}
Highs == {40, 75, 100, 101}

InitCriteria ==
    /\ page = NoPage
    /\ engine = ScoringEngine(TRUE, TRUE)
    /\ call = NoCall
    /\ probe = NoProbe
    /\ \E w \in WeightTuples, minimum \in Minimums, medium \in Mediums, high \in Highs :
        \E drift \in Drifts(w) :
            criteria = [kind |-> "arguments", weights |-> w, drift |-> drift,
                        minimum |-> minimum, medium |-> medium, high |-> high]

\* MatchingCriteria(...) runs on the arguments
ConstructMatchingCriteria ==
    /\ criteria.kind = "arguments"
    /\ criteria' = [kind |-> "attempt", weights |-> criteria.weights,
                    drift |-> criteria.drift, minimum |-> criteria.minimum,
                    medium |-> criteria.medium, high |-> criteria.high,
                    outcome |-> MatchingCriteria(
                        criteria.weights[1], criteria.weights[2],
                        criteria.weights[3], criteria.weights[4],
                        criteria.minimum, criteria.high, criteria.medium,
                        criteria.drift)]
    /\ UNCHANGED <<engine, call, probe, page>>

NextCriteria == ConstructMatchingCriteria

SpecCriteria == InitCriteria /\ [][NextCriteria]_vars

(***************************************************************************)
(* The three score-to-verdict mappings applied to one score.               *)
(***************************************************************************)
MaxOvershoot == 5         \* how far outside 0..100 the probed scores go

ProbeScores == (0 - MaxOvershoot)..(100 + MaxOvershoot)

\* the verdict handed to AnalysisResult; the first three are not valid
GivenVerdicts == {"", "high", "Excellent", "High", "Low"}

Unset == "unset"

InitVerdict ==
    /\ page = NoPage
    /\ engine = ScoringEngine(TRUE, TRUE)
    /\ call = NoCall
    /\ criteria = NoCriteria
    /\ \E score \in ProbeScores, given \in GivenVerdicts :
            probe = [kind |-> "verdicts", score |-> score, given |-> given,
                     engine |-> Unset, criteria |-> Unset, analysis |-> Unset]

\* ScoringEngine._determine_verdict(score)
DetermineVerdict ==
    /\ probe.kind = "verdicts" /\ probe.engine = Unset
    /\ probe' = [probe EXCEPT !.engine = _determine_verdict(probe.score)]
    /\ UNCHANGED <<engine, call, criteria, page>>

\* MatchingCriteria().get_verdict_for_score(score)
GetVerdictForScore ==
    /\ probe.kind = "verdicts" /\ probe.criteria = Unset
    /\ probe' = [probe EXCEPT !.criteria = get_verdict_for_score(DefaultCriteria, probe.score)]
    /\ UNCHANGED <<engine, call, criteria, page>>

\* AnalysisResult(relevance_score=score, verdict=given).verdict
ConstructAnalysisResult ==
    /\ probe.kind = "verdicts" /\ probe.analysis = Unset
    /\ probe' = [probe EXCEPT !.analysis = AnalysisResult(probe.score, probe.given).verdict]
    /\ UNCHANGED <<engine, call, criteria, page>>

NextVerdict == DetermineVerdict \/ GetVerdictForScore \/ ConstructAnalysisResult

SpecVerdict == InitVerdict /\ [][NextVerdict]_vars

(***************************************************************************)
(* A MatchingCriteria at hand while the aggregator classifies.             *)
(* calculate_hybrid_score and ScoringEngine.__init__ take no criteria: the *)
(* aggregator's classification step is _determine_verdict(final_score).    *)
(***************************************************************************)
FinalScores == 0..100

InitSupplied ==
    /\ page = NoPage
    /\ engine = ScoringEngine(TRUE, TRUE)
    /\ call = NoCall
    /\ \E minimum \in Minimums, medium \in Mediums, high \in Highs :
            /\ criteria = MatchingCriteria(400, 350, 150, 100, minimum, high, medium, 0)
            /\ criteria.kind = "MatchingCriteria"
    /\ \E score \in FinalScores :
            probe = [kind |-> "verdicts", score |-> score, given |-> Unset,
                     engine |-> Unset, criteria |-> Unset, analysis |-> Unset]

\* criteria.get_verdict_for_score(score) of the criteria at hand
GetVerdictOfSupplied ==
    /\ probe.kind = "verdicts" /\ probe.criteria = Unset
    /\ criteria.kind = "MatchingCriteria"
    /\ probe' = [probe EXCEPT !.criteria = get_verdict_for_score(criteria, probe.score)]
    /\ UNCHANGED <<engine, call, criteria, page>>

NextSupplied == DetermineVerdict \/ GetVerdictOfSupplied

SpecSupplied == InitSupplied /\ [][NextSupplied]_vars

(***************************************************************************)
(* Direct calls of the sub-scorers and of the confidence estimate.  The    *)
(* caller chooses the method and its arguments; the method then runs on    *)
(* them once.                                                              *)
(***************************************************************************)
\* the arguments of a call that has not run yet
Arguments(scorer, resume, job_description, ai_analysis) ==
    [kind |-> "arguments", scorer |-> scorer, resume |-> resume,
     job_description |-> job_description, ai_analysis |-> ai_analysis, result |-> Unset]

\* the same record once the method has handed back `result`
Applied(p, result) == [p EXCEPT !.kind = "applied", !.result = result]

SkillResumeTexts ==
    ResumeTexts \cup
    {<<"L","e","a","r","n","i","n","g"," ","a","b","o","u","t"," ","M","a","c","h","i","n","e"," ","t","o","o","l","s"," ","a","n","d"," ","S","Q","L">>,
     <<"g","o"," ","d","e","v","e","l","o","p","e","r",","," ","p","y","t","h","o","n","3"," ","a","n","d"," ","d","o","c","k","e","r">>}

\* jobs that differ in their two skill lists only
SkillJob(must_have_skills, nice_to_have_skills) ==
    JobDescription(Str(<<>>), must_have_skills, nice_to_have_skills, None)

MustHaveLists ==
    {None, Skills(<<>>), Skills(<<<<"P","y","t","h","o","n">>>>), Skills(<<<<"j","a","v","a">>, <<"s","q","l">>>>), Skills(<<<<" ","S","Q","L"," ">>>>),
     Skills(<<<<"m","a","c","h","i","n","e"," ","l","e","a","r","n","i","n","g">>, <<"p","y","t","h","o","n">>, <<"g","o">>>>)}

NiceToHaveLists ==
    {None, Skills(<<>>), Skills(<<<<"M","a","c","h","i","n","e"," ","L","e","a","r","n","i","n","g">>>>), Skills(<<<<"s","q","l">>, <<"d","o","c","k","e","r">>, <<"r","u","s","t">>>>)}

SkillArguments ==
    {Arguments("skill", r, j, None) :
        r \in {None} \cup {Resume(Str(t)) : t \in SkillResumeTexts},
        j \in {None} \cup {SkillJob(m, n) : m \in MustHaveLists, n \in NiceToHaveLists}}

ExperienceResumeTexts ==
    ResumeTexts \cup
    {<<"1"," ","y","e","a","r"," ","o","f"," ","e","x","p","e","r","i","e","n","c","e">>,
     <<"E","x","p","e","r","i","e","n","c","e",":"," ","2"," ","y","e","a","r","s">>,
     <<"1","0"," ","y","e","a","r","s"," ","i","n"," ","s","a","l","e","s">>,
     <<"1","7","+"," ","Y","e","a","r","s"," ","o","f"," ","E","x","p","e","r","i","e","n","c","e">>,
     <<"m","y"," ","r","o","l","e">>,
     <<"0"," ","y","e","a","r","s"," ","o","f"," ","e","x","p","e","r","i","e","n","c","e",","," ","w","o","r","k","e","d"," ","i","n"," ","a"," ","r","o","l","e">>,
     <<"3"," ","y","e","a","r","s"," ","o","f"," ","e","x","p","e","r","i","e","n","c","e"," ","a","n","d"," ","7"," ","y","e","a","r","s"," ","i","n"," ","j","a","v","a">>,
     <<"E","m","p","l","o","y","e","d",","," ","w","o","r","k","e","d"," ","i","n"," ","t","h","e"," ","p","o","s","i","t","i","o","n"," ","a","n","d"," ","r","o","l","e">>,
     <<"1","0","0","0","0"," ","y","e","a","r","s"," ","o","f"," ","e","x","p","e","r","i","e","n","c","e">>,
     <<"r","e","w","o","r","k","e","d"," ","r","o","l","e","s">>}

\* jobs that differ in their experience level only
ExperienceJob(experience_level) ==
    JobDescription(Str(<<>>), Skills(<<>>), Skills(<<>>), experience_level)

ExperienceLevels ==
    {None, Str(<<>>), Str(<<"E","n","t","r","y"," ","L","e","v","e","l">>), Str(<<"M","i","d"," ","L","e","v","e","l">>), Str(<<"S","e","n","i","o","r"," ","L","e","v","e","l">>), Str(<<"E","x","e","c","u","t","i","v","e">>),
     Str(<<"s","e","n","i","o","r"," ","l","e","v","e","l">>), Str(<<"L","e","a","d">>), Str(<<" ","S","e","n","i","o","r"," ","L","e","v","e","l">>)}

\* the texts _extract_years_of_experience is called with
YearsArguments == {Arguments("years", Resume(Str(t)), None, None) : t \in ExperienceResumeTexts}

ExperienceArguments ==
    {Arguments("experience", r, j, None) :
        r \in {None} \cup {Resume(Str(t)) : t \in ExperienceResumeTexts},
        j \in {None} \cup {ExperienceJob(l) : l \in ExperienceLevels}}

\* semantic_similarity values of a bundle: missing, null, and numbers in [0, 1]
Similarities ==
    {Absent, None, Num(Q(0, 1)), Num(Q(5, 100)), Num(Q(6, 10)), Num(Q(97, 100)), Num(Q(1, 1))}

\* matching_skills / missing_skills values of a bundle: missing, null, and lists
SkillLists == {Absent, None} \cup {SkillList(n) : n \in 0..MaxBundleSkills}

SemanticArguments ==
    {Arguments("semantic", None, None, b) :
        b \in {None} \cup {Bundle(s, m, k, Absent) :
                            s \in Similarities, m \in SkillLists, k \in SkillLists}}

KeywordArguments ==
    {Arguments("keyword", r, j, None) : r \in Resumes, j \in Jobs}

\* a text of n one-letter words
Words(n) == Tuple([i \in 1..(2 * n - 1) |-> IF i % 2 = 1 THEN "w" ELSE " "])

ConfidenceResumes ==
    {None} \cup {Resume(Str(Words(n))) : n \in {0, 1, 199, 200, 500, 800, 801}}

ConfidenceJobs ==
    {None} \cup
    {JobDescription(d, m, n, None) :
        d \in {None, Str(<<>>), Str(<<"d","e","v">>)},
        m \in {None, Skills(<<>>), Skills(<<<<"s","q","l">>>>)},
        n \in {Skills(<<>>), Skills(<<<<"g","o">>>>)}}

ConfidenceBundles ==
    {None} \cup
    {Bundle(Absent, m, Absent, r) :
        m \in {Absent, None, SkillList(0), SkillList(1)},
        r \in {Absent, None, Str(<<>>), Reasoning}}

ConfidenceArguments ==
    {Arguments("confidence", r, j, b) :
        r \in ConfidenceResumes, j \in ConfidenceJobs, b \in ConfidenceBundles}

ScorerArguments ==
    SkillArguments \cup ExperienceArguments \cup SemanticArguments
        \cup KeywordArguments \cup ConfidenceArguments

InitScorers ==
    /\ page = NoPage
    /\ \E sklearn \in BOOLEAN, fuzzywuzzy \in BOOLEAN :
            engine = ScoringEngine(sklearn, fuzzywuzzy)
    /\ call = NoCall
    /\ criteria = NoCriteria
    /\ probe \in ScorerArguments
    \* only the keyword scorer uses the libraries
    /\ probe.scorer = "keyword" \/ engine = ScoringEngine(TRUE, TRUE)

\* self._calculate_skill_match_score(resume, job_description)
CalculateSkillMatchScore ==
    /\ probe.kind = "arguments" /\ probe.scorer = "skill"
    /\ probe' = Applied(probe, _calculate_skill_match_score(probe.resume, probe.job_description))
    /\ UNCHANGED <<engine, call, criteria, page>>

\* self._calculate_experience_score(resume, job_description)
CalculateExperienceScore ==
    /\ probe.kind = "arguments" /\ probe.scorer = "experience"
    /\ probe' = Applied(probe, _calculate_experience_score(probe.resume, probe.job_description))
    /\ UNCHANGED <<engine, call, criteria, page>>

\* self._calculate_semantic_score(ai_analysis)
CalculateSemanticScore ==
    /\ probe.kind = "arguments" /\ probe.scorer = "semantic"
    /\ probe' = Applied(probe, _calculate_semantic_score(probe.ai_analysis))
    /\ UNCHANGED <<engine, call, criteria, page>>

\* self._calculate_keyword_score(resume, job_description); the fit of the
\* vectorizer stays with the engine
CalculateKeywordScore ==
    /\ probe.kind = "arguments" /\ probe.scorer = "keyword"
    /\ probe' = Applied(probe, KeywordScoreOf[engine.sklearn, engine.fuzzywuzzy, engine.vec,
                                              probe.resume, probe.job_description].out)
    /\ engine' = [engine EXCEPT !.vec =
                        KeywordScoreOf[engine.sklearn, engine.fuzzywuzzy, engine.vec,
                                       probe.resume, probe.job_description].vec]
    /\ UNCHANGED <<call, criteria, page>>

\* self._calculate_confidence_score(resume, job_description, ai_analysis)
CalculateConfidenceScore ==
    /\ probe.kind = "arguments" /\ probe.scorer = "confidence"
    /\ probe' = Applied(probe, _calculate_confidence_score(probe.resume, probe.job_description,
                                                           probe.ai_analysis))
    /\ UNCHANGED <<engine, call, criteria, page>>

NextScorers ==
    \/ CalculateSkillMatchScore
    \/ CalculateExperienceScore
    \/ CalculateSemanticScore
    \/ CalculateKeywordScore
    \/ CalculateConfidenceScore

SpecScorers == InitScorers /\ [][NextScorers]_vars

(***************************************************************************)
(* Direct calls of the helpers of the sub-scorers: the extraction of the   *)
(* years of experience and the two keyword sub-signals.                    *)
(***************************************************************************)
\* resume_text and jd_text as _calculate_keyword_score passes them: lower-cased
PresenceResumeTexts == {lower(t) : t \in SkillResumeTexts}

PresenceJdTexts ==
    {lower(t) : t \in JdTexts} \cup
    {<<"t","h","e"," ","s","q","l"," ","a","n","d"," ","f","o","r"," ","g","o">>,
     <<"k","u","b","e","r","n","e","t","e","s"," ","b","a","c","k","e","n","d">>,
     <<"p","y","t","h","o","n",","," ","p","y","t","h","o","n"," ","a","n","d"," ","l","e","a","r","n","i","n","g"," ","t","o","o","l","s">>,
     <<"d","e","v","e","l","o","p","e","r","s"," ","e","x","p","e","r","i","e","n","c","e","d"," ","p","y","t","h","o","n","i","c","3"," ","d","a","t","a","_","b","a","s","e">>}

\* a job of which only the description matters
PresenceJob(jd_text) == JobDescription(Str(jd_text), Skills(<<>>), Skills(<<>>), None)

PresenceArguments ==
    {Arguments("presence", Resume(Str(r)), PresenceJob(j), None) :
        r \in PresenceResumeTexts, j \in PresenceJdTexts}

\* required_skills as _calculate_keyword_score passes them: the two lists added
RequiredSkills ==
    {List(m.val \o n.val) : m \in MustHaveLists \ {None}, n \in NiceToHaveLists \ {None}}
        \cup {Skills(<<<<" ">>, <<"G","o"," ","G","o">>>>),
              Skills(<<<<"d","e","v","e","l","o","p","e","r"," ","p","y","t","h","o","n">>, <<"r","u","s","t"," ","b","a","c","k","e","n","d">>>>)}

SkillKeywordArguments ==
    {Arguments("skill_keyword", Resume(Str(r)), SkillJob(k, Skills(<<>>)), None) :
        r \in PresenceResumeTexts, k \in RequiredSkills}

\* jobs in which a skill of one list is, or is not, listed in the other too
RepeatedSkillJobs ==
    {JobDescription(Str(<<"j","a","v","a"," ","e","n","g","i","n","e","e","r">>), m, n, None) :
        m \in {Skills(<<<<"j","a","v","a">>, <<"s","q","l">>>>), Skills(<<<<"r","u","s","t">>>>)},
        n \in {Skills(<<>>), Skills(<<<<"j","a","v","a">>>>), Skills(<<<<"s","q","l">>, <<"g","o">>>>)}}

RepeatedSkillArguments ==
    {Arguments("keyword", Resume(Str(r)), j, None) :
        r \in {t \in ResumeTexts : t # <<>>}, j \in RepeatedSkillJobs}

SignalArguments ==
    YearsArguments \cup PresenceArguments \cup SkillKeywordArguments
        \cup RepeatedSkillArguments

InitSignals ==
    /\ page = NoPage
    /\ \E sklearn \in {TRUE}, fuzzywuzzy \in BOOLEAN :
            engine = ScoringEngine(sklearn, fuzzywuzzy)
    /\ call = NoCall
    /\ criteria = NoCriteria
    /\ probe \in SignalArguments

\* self._extract_years_of_experience(resume_text)
ExtractYearsOfExperience ==
    /\ probe.kind = "arguments" /\ probe.scorer = "years"
    /\ probe' = Applied(probe, _extract_years_of_experience(probe.resume.content.val))
    /\ UNCHANGED <<engine, call, criteria, page>>

\* self._calculate_keyword_presence(resume_text, jd_text)
CalculateKeywordPresence ==
    /\ probe.kind = "arguments" /\ probe.scorer = "presence"
    /\ probe' = Applied(probe, Return(_calculate_keyword_presence(engine,
                                    probe.resume.content.val,
                                    probe.job_description.description.val)))
    /\ UNCHANGED <<engine, call, criteria, page>>

\* self._calculate_skill_keyword_match(resume_text, all_required_skills)
CalculateSkillKeywordMatch ==
    /\ probe.kind = "arguments" /\ probe.scorer = "skill_keyword"
    /\ probe' = Applied(probe, Return(_calculate_skill_keyword_match(
                                    probe.resume.content.val,
                                    probe.job_description.must_have_skills.val)))
    /\ UNCHANGED <<engine, call, criteria, page>>

\* self._calculate_keyword_score(resume, job_description) on a job whose lists
\* may share a skill; the fit of the vectorizer stays with the engine
CalculateKeywordScoreOfJob ==
    /\ probe.kind = "arguments" /\ probe.scorer = "keyword"
    /\ LET k == _calculate_keyword_score(engine, probe.resume, probe.job_description)
       IN  /\ probe' = Applied(probe, k.out)
           /\ engine' = [engine EXCEPT !.vec = k.vec]
    /\ UNCHANGED <<call, criteria, page>>

NextSignals ==
    \/ ExtractYearsOfExperience
    \/ CalculateKeywordPresence
    \/ CalculateSkillKeywordMatch
    \/ CalculateKeywordScoreOfJob

SpecSignals == InitSignals /\ [][NextSignals]_vars

(***************************************************************************)
(* app.resume_analysis_page: what happens once "Analyze Resume" is         *)
(* pressed.  The page keeps its position in the handler, the locals the    *)
(* handler has assigned, the steps it has run (with whether each one       *)
(* succeeded) and the message it has shown.  The parser, the database and  *)
(* the AI analyzer are the environment: each call of one either hands a    *)
(* value back or raises.  The engine is the cached one, so it lives on     *)
(* from one analysis to the next.                                          *)
(***************************************************************************)
PageSteps ==
    <<"extract_text_from_file", "get_job_description", "Resume",
      "analyze_resume_job_match", "calculate_hybrid_score", "AnalysisResult",
      "save_analysis_result", "display_analysis_results", "success">>

ResultIds == {1, 2}

\* a local of the handler that no statement has assigned yet
Unassigned == [kind |-> "unassigned"]

StError(text) == [kind |-> "error", text |-> text]
StSuccess(result_id) == [kind |-> "success", result_id |-> result_id]

\* the page as the form is submitted
Submitted ==
    [pc |-> "form", resume_text |-> Unassigned, jd |-> Unassigned, resume |-> Unassigned,
     ai_analysis |-> Unassigned, scores |-> Unassigned, result |-> Unassigned, result_id |-> Unassigned,
     saved |-> Unassigned, displayed |-> Unassigned, events |-> <<>>, message |-> Unassigned]

\* a handler without the except clause: the statement after a failed one runs
ContinueAnyway(outcome, next) == next

\* try: ... except Exception: a statement that raises hands control to the
\* except clause, one that returns hands it to the next statement
TryBlock(outcome, next) == IF outcome.raised THEN "except" ELSE next

\* the page after one statement of the try block has run
Ran(p, step, outcome, next) ==
    [p EXCEPT !.events = Append(@, [step |-> step, ok |-> ~outcome.raised]),
              !.pc = TryBlock(outcome, next)]

\* what a collaborator's call can do, given the values it can hand back
Outcomes(values) == {Raise} \cup {Return(v) : v \in values}

ValueOf(outcome) == IF outcome.raised THEN Unassigned ELSE outcome.val

\* if analyze_button: the two checks of the form, each with its early return
AnalyzeButton ==
    /\ page.pc \in {"none", "done"}
    /\ \E uploaded \in BOOLEAN, named \in BOOLEAN :
            page' = IF ~uploaded
                    THEN [Submitted EXCEPT !.pc = "done",
                            !.message = StError("Please upload a resume file!")]
                    ELSE IF ~named
                    THEN [Submitted EXCEPT !.pc = "done",
                            !.message = StError("Candidate name and email are required!")]
                    ELSE [Submitted EXCEPT !.pc = "extract_text_from_file"]
    /\ UNCHANGED <<engine, call, probe, criteria>>

\* resume_text = parser.extract_text_from_file(uploaded_resume)
ExtractTextFromFile ==
    /\ page.pc = "extract_text_from_file"
    /\ \E outcome \in Outcomes(ResumeTexts) :
            page' = [Ran(page, "extract_text_from_file", outcome, "get_job_description")
                        EXCEPT !.resume_text = ValueOf(outcome)]
    /\ UNCHANGED <<engine, call, probe, criteria>>

\* jd_data = db.get_job_description(selected_jd_id); jd = JobDescription(**jd_data)
GetJobDescription ==
    /\ page.pc = "get_job_description"
    /\ \E outcome \in Outcomes(Jobs \ {None}) :
            page' = [Ran(page, "get_job_description", outcome, "Resume")
                        EXCEPT !.jd = ValueOf(outcome)]
    /\ UNCHANGED <<engine, call, probe, criteria>>

\* resume = Resume(..., content=resume_text, ...); __post_init__ strips the content
CreateResume ==
    /\ page.pc = "Resume"
    /\ page' = [Ran(page, "Resume", Return(Unassigned), "analyze_resume_job_match")
                    EXCEPT !.resume = Resume(Str(strip(page.resume_text)))]
    /\ UNCHANGED <<engine, call, probe, criteria>>

\* ai_analysis = ai_analyzer.analyze_resume_job_match(resume, jd)
AnalyzeResumeJobMatch ==
    /\ page.pc = "analyze_resume_job_match"
    /\ \E outcome \in Outcomes(Bundles \ {None}) :
            page' = [Ran(page, "analyze_resume_job_match", outcome, "calculate_hybrid_score")
                        EXCEPT !.ai_analysis = ValueOf(outcome)]
    /\ UNCHANGED <<engine, call, probe, criteria>>

\* what calculate_hybrid_score does to its caller
ScoresOutcome(outcome) == IF outcome.kind = "raised" THEN Raise ELSE Return(outcome)

\* scores = scoring_engine.calculate_hybrid_score(resume, jd, ai_analysis)
CalculateScores ==
    /\ page.pc = "calculate_hybrid_score"
    /\ LET c == calculate_hybrid_score(engine, page.resume, page.jd, page.ai_analysis)
       IN  /\ engine' = c.engine
           /\ page' = [Ran(page, "calculate_hybrid_score", ScoresOutcome(c.call.outcome),
                           "AnalysisResult")
                          EXCEPT !.scores = ValueOf(ScoresOutcome(c.call.outcome))]
    /\ UNCHANGED <<call, probe, criteria>>

\* result = AnalysisResult(..., relevance_score=scores['final_score'], ...,
\*                         verdict=scores['verdict'], ...)
ResultOutcome(scores) == Return(AnalysisResult(scores.final_score, scores.verdict))

CreateAnalysisResult ==
    /\ page.pc = "AnalysisResult"
    /\ page' = [Ran(page, "AnalysisResult", ResultOutcome(page.scores),
                    "save_analysis_result")
                    EXCEPT !.result = ValueOf(ResultOutcome(page.scores))]
    /\ UNCHANGED <<engine, call, probe, criteria>>

\* result_id = db.save_analysis_result(result, selected_jd_id)
SaveAnalysisResult ==
    /\ page.pc = "save_analysis_result"
    /\ \E outcome \in Outcomes(ResultIds) :
            page' = [Ran(page, "save_analysis_result", outcome, "display_analysis_results")
                        EXCEPT !.result_id = ValueOf(outcome),
                               !.saved = IF outcome.raised THEN Unassigned ELSE page.result]
    /\ UNCHANGED <<engine, call, probe, criteria>>

\* display_analysis_results(result)
DisplayAnalysisResults ==
    /\ page.pc = "display_analysis_results"
    /\ page' = [Ran(page, "display_analysis_results", Return(Unassigned), "success")
                    EXCEPT !.displayed = page.result]
    /\ UNCHANGED <<engine, call, probe, criteria>>

\* st.success(f"Analysis completed and saved! (Result ID: {result_id})")
ShowSuccess ==
    /\ page.pc = "success"
    /\ page' = [Ran(page, "success", Return(Unassigned), "done")
                    EXCEPT !.message = StSuccess(page.result_id)]
    /\ UNCHANGED <<engine, call, probe, criteria>>

\* except Exception as e: st.error(f"Error analyzing resume: {str(e)}")
ShowError ==
    /\ page.pc = "except"
    /\ page' = [page EXCEPT !.pc = "done",
                            !.message = StError("Error analyzing resume")]
    /\ UNCHANGED <<engine, call, probe, criteria>>

\* initialize_components(): the page starts with a fresh ScoringEngine()
InitPage ==
    /\ page = NoPage
    /\ \E sklearn \in BOOLEAN, fuzzywuzzy \in BOOLEAN :
            engine = ScoringEngine(sklearn, fuzzywuzzy)
    /\ call = NoCall
    /\ probe = NoProbe
    /\ criteria = NoCriteria

NextPage ==
    \/ AnalyzeButton
    \/ ExtractTextFromFile
    \/ GetJobDescription
    \/ CreateResume
    \/ AnalyzeResumeJobMatch
    \/ CalculateScores
    \/ CreateAnalysisResult
    \/ SaveAnalysisResult
    \/ DisplayAnalysisResults
    \/ ShowSuccess
    \/ ShowError

SpecPage == InitPage /\ [][NextPage]_vars

(***************************************************************************)
(* Constructing a JobDescription whose skills arrive as one string.  The   *)
(* caller chooses the two skill arguments; the construction runs on them;  *)
(* the skills of the constructed job can then be joined with commas and    *)
(* handed to a second construction.                                        *)
(***************************************************************************)
MaxSkillText == 5         \* longest skills string handed to the constructor

SkillChars == {"a", "b", " ", ","}

RECURSIVE TextsOfLength(_)
TextsOfLength(n) ==
    IF n = 0 THEN {<<>>}
    ELSE {Append(t, c) : t \in TextsOfLength(n - 1), c \in SkillChars}

SkillTexts == UNION {TextsOfLength(n) : n \in 0..MaxSkillText}

\* what the caller passes for the other skills field
OtherSkills == {List(<<>>), Skills(<<<<"s", "q", "l">>>>), Str(<<"b", ",", " ", "a">>), None}

\* ','.join(skills)
RECURSIVE JoinWithCommas(_)
JoinWithCommas(skills) ==
    IF skills = <<>> THEN <<>>
    ELSE IF Len(skills) = 1 THEN skills[1].val
    ELSE skills[1].val \o <<",">> \o JoinWithCommas(Tail(skills))

JobTitle == Str(<<"j", "o", "b">>)

InitJob ==
    /\ page = NoPage
    /\ engine = ScoringEngine(TRUE, TRUE)
    /\ call = NoCall
    /\ criteria = NoCriteria
    /\ \E text \in SkillTexts, other \in OtherSkills, field \in {"must_have_skills", "nice_to_have_skills"} :
            probe = [kind |-> "job_arguments", field |-> field, text |-> text,
                     must_have_skills |-> IF field = "must_have_skills" THEN Str(text) ELSE other,
                     nice_to_have_skills |-> IF field = "nice_to_have_skills" THEN Str(text) ELSE other,
                     job |-> None, again |-> None]

\* jd = JobDescription(..., must_have_skills=..., nice_to_have_skills=...)
ConstructJobDescription ==
    /\ probe.kind = "job_arguments"
    /\ probe' = [probe EXCEPT !.kind = "job",
                              !.job = JobDescription(JobTitle, probe.must_have_skills,
                                                     probe.nice_to_have_skills, None)]
    /\ UNCHANGED <<engine, call, criteria, page>>

\* JobDescription(..., must_have_skills=','.join(jd.must_have_skills),
\*                     nice_to_have_skills=','.join(jd.nice_to_have_skills))
ConstructFromJoined ==
    /\ probe.kind = "job"
    /\ IsList(probe.job.must_have_skills) /\ IsList(probe.job.nice_to_have_skills)
    /\ probe' = [probe EXCEPT !.kind = "job_again",
                    !.again = JobDescription(JobTitle,
                                Str(JoinWithCommas(probe.job.must_have_skills.val)),
                                Str(JoinWithCommas(probe.job.nice_to_have_skills.val)), None)]
    /\ UNCHANGED <<engine, call, criteria, page>>

NextJob == ConstructJobDescription \/ ConstructFromJoined

SpecJob == InitJob /\ [][NextJob]_vars

(***************************************************************************)
(* A caller that holds a resume, a job description and an analysis bundle  *)
(* and calls calculate_hybrid_score and calculate_detailed_metrics on      *)
(* them, in any order, again and again.  `held` is the three objects as    *)
(* the calls have left them; `original` is what they were at the start.    *)
(***************************************************************************)
MaxCalls == 3             \* calls one caller makes on the objects it holds

Held(resume, job_description, ai_analysis) ==
    [resume |-> resume, job_description |-> job_description, ai_analysis |-> ai_analysis]

\* the objects after calculate_hybrid_score has read them
HeldAfterHybridScore(held) ==
    Held(held.resume,
         JobAfterAdd(held.job_description),
         DictAfterGet(DictAfterGet(held.ai_analysis, {"semantic_similarity"}, Num(Whole(0))),
                      {"matching_skills", "missing_skills"}, List(<<>>)))

\* the objects after calculate_detailed_metrics has read them
HeldAfterDetailedMetrics(held) ==
    Held(held.resume,
         JobAfterAdd(held.job_description),
         DictAfterGet(held.ai_analysis, {"matching_skills", "missing_skills"}, List(<<>>)))

InitFrame ==
    /\ page = NoPage
    /\ \E sklearn \in BOOLEAN, fuzzywuzzy \in BOOLEAN :
            engine = ScoringEngine(sklearn, fuzzywuzzy)
    /\ call = NoCall
    /\ criteria = NoCriteria
    /\ \E resume \in Resumes, job_description \in Jobs, ai_analysis \in Bundles :
            probe = [kind |-> "held", calls |-> 0, method |-> "none",
                     held |-> Held(resume, job_description, ai_analysis),
                     original |-> Held(resume, job_description, ai_analysis),
                     weights |-> DefaultWeights]

\* scores = engine.calculate_hybrid_score(resume, job_description, ai_analysis)
CallHybridScore ==
    /\ probe.kind = "held" /\ probe.calls < MaxCalls
    /\ LET c == calculate_hybrid_score(engine, probe.held.resume, probe.held.job_description,
                                       probe.held.ai_analysis)
       IN  /\ engine' = c.engine
           /\ call' = c.call
    /\ probe' = [probe EXCEPT !.calls = @ + 1, !.method = "calculate_hybrid_score",
                              !.held = HeldAfterHybridScore(@)]
    /\ UNCHANGED <<criteria, page>>

\* metrics = engine.calculate_detailed_metrics(resume, job_description, ai_analysis)
CallDetailedMetrics ==
    /\ probe.kind = "held" /\ probe.calls < MaxCalls
    /\ call' = [kind |-> "metrics",
                metrics |-> calculate_detailed_metrics(probe.held.resume,
                                probe.held.job_description, probe.held.ai_analysis)]
    /\ probe' = [probe EXCEPT !.calls = @ + 1, !.method = "calculate_detailed_metrics",
                              !.held = HeldAfterDetailedMetrics(@)]
    /\ UNCHANGED <<engine, criteria, page>>

NextFrame == CallHybridScore \/ CallDetailedMetrics

SpecFrame == InitFrame /\ [][NextFrame]_vars

(***************************************************************************)
(* Where an AnalysisResult is constructed: by a caller with a score and a  *)
(* verdict of its choice, or by the resume-analysis page from the scores   *)
(* of the engine.                                                          *)
(***************************************************************************)
SuppliedVerdicts == GivenVerdicts \cup {"Medium"}

InitResult ==
    \/ InitPage
    \/ /\ page = NoPage
       /\ engine = ScoringEngine(TRUE, TRUE)
       /\ call = NoCall
       /\ criteria = NoCriteria
       /\ \E relevance_score \in ProbeScores, verdict \in SuppliedVerdicts :
                probe = [kind |-> "result_arguments", relevance_score |-> relevance_score,
                         verdict |-> verdict, result |-> None]

\* result = AnalysisResult(..., relevance_score=relevance_score, verdict=verdict)
ConstructResult ==
    /\ probe.kind = "result_arguments"
    /\ probe' = [probe EXCEPT !.kind = "result",
                              !.result = AnalysisResult(probe.relevance_score, probe.verdict)]
    /\ UNCHANGED <<engine, call, criteria, page>>

\* the page runs when no other caller is there
PageStep == probe = NoProbe /\ NextPage

NextResult == ConstructResult \/ PageStep

SpecResult == InitResult /\ [][NextResult]_vars

(***************************************************************************)
(* Properties of calculate_hybrid_score.                                   *)
(***************************************************************************)
Returned == call.kind = "call" /\ call.outcome.kind = "returned"

ScoreFields == {"final_score", "keyword_score", "semantic_score",
                "skill_match_score", "experience_score"}

\* C1: whenever calculate_hybrid_score returns a result, its final_score,
\* keyword_score, semantic_score, skill_match_score and experience_score are
\* each an integer between 0 and 100 inclusive.
C1_ScoresInRange ==
    Returned => \A f \in ScoreFields : call.outcome[f] \in 0..100

\* a call that returned for a bundle whose similarity is above 1.0
C1_Witness ==
    /\ Returned
    /\ call.ai_analysis.kind = "dict"
    /\ IsNum(call.ai_analysis.semantic_similarity)
    /\ RLess(Whole(1), call.ai_analysis.semantic_similarity.val)
    /\ call.outcome.semantic_score = 100

\* C2: in every returned result the verdict is determined by final_score
\* alone: High exactly when final_score >= 75, Medium exactly when
\* 50 <= final_score < 75, Low exactly when final_score < 50.
C2_VerdictFromFinalScore ==
    Returned =>
        LET f == call.outcome.final_score
            v == call.outcome.verdict
        IN  /\ (v = "High") <=> (f >= 75)
            /\ (v = "Medium") <=> (50 <= f /\ f < 75)
            /\ (v = "Low") <=> (f < 50)

\* a result on the boundary: final_score 75, verdict High
C2_Witness ==
    Returned /\ call.outcome.final_score = 75 /\ call.outcome.verdict = "High"

\* 0.40 * keyword + 0.35 * semantic + 0.15 * skill + 0.10 * experience
LiteralWeightedSum(k, s, sk, e) ==
    RAdd(RAdd(RAdd(RMul(Q(40, 100), k), RMul(Q(35, 100), s)),
              RMul(Q(15, 100), sk)),
         RMul(Q(10, 100), e))

\* f is an integer nearest to the rational x, then clamped to 0..100
NearestClamped(f, x) ==
    \/ 0 <= f /\ f <= 100 /\ 2 * Abs(f * x[2] - x[1]) <= x[2]
    \/ f = 100 /\ RLess(Whole(100), x)
    \/ f = 0 /\ RLess(x, Whole(0))

\* C3: final_score is the weighted sum 0.40 keyword + 0.35 semantic +
\* 0.15 skill + 0.10 experience of the four unrounded sub-scores, rounded to
\* a nearest integer and clamped to 0..100, and score_breakdown records
\* exactly these four weights.
C3_WeightedSumRounded ==
    Returned =>
        /\ NearestClamped(call.outcome.final_score,
                          LiteralWeightedSum(call.sub.keyword.val, call.sub.semantic.val,
                                             call.sub.skill.val, call.sub.experience.val))
        /\ call.outcome.score_breakdown =
                [keyword_weight |-> Q(40, 100), semantic_weight |-> Q(35, 100),
                 skill_weight |-> Q(15, 100), experience_weight |-> Q(10, 100)]

\* a result whose keyword sub-score is not a whole number and whose reported
\* sub-scores would add up to another final score
C3_Witness ==
    /\ Returned
    /\ call.sub.keyword.val[2] # 1
    /\ ~NearestClamped(call.outcome.final_score,
                       LiteralWeightedSum(Whole(call.outcome.keyword_score),
                                          Whole(call.outcome.semantic_score),
                                          Whole(call.outcome.skill_match_score),
                                          Whole(call.outcome.experience_score)))

\* C4: whatever calls the engine has served before, a call returns what a
\* freshly constructed engine (with the same libraries) returns for the same
\* resume, job description and bundle; no vocabulary fitted on an earlier
\* pair influences it.
C4_SameAsFreshEngine ==
    call.kind = "call" =>
        call.outcome =
            calculate_hybrid_score(ScoringEngine(engine.sklearn, engine.fuzzywuzzy),
                                   call.resume, call.job_description,
                                   call.ai_analysis).call.outcome

\* a call that found the vectorizer fitted on another pair, refitted it and
\* returned a keyword score
C4_Witness ==
    /\ Returned
    /\ engine.sklearn
    /\ call.before.fitted
    /\ engine.vec # call.before
    /\ call.outcome.keyword_score > 0

\* C5: if a component computation fails inside calculate_hybrid_score (all
\* inputs null included), the call ends with the "Score calculation failed"
\* error and returns no result.
C5_FailureIsSignalled ==
    (call.kind = "call" /\ \E n \in SubScorers : call.sub[n].failed)
        => call.outcome.kind = "raised"

IsNumber(q) == Len(q) = 2 /\ q[1] \in Int /\ q[2] \in Nat /\ q[2] > 0

\* C6: none of the four sub-scorers propagates an exception; for every
\* input, null or wrongly typed ones included, each returns a number.
C6_SubScorersNeverRaise ==
    call.kind = "call" =>
        \A n \in SubScorers : ~call.sub[n].raised /\ IsNumber(call.sub[n].val)

\* a call with a null resume, a null job description and a null bundle, in
\* which all four computations failed inside
C6_Witness ==
    /\ call.kind = "call"
    /\ call.resume = None /\ call.job_description = None /\ call.ai_analysis = None
    /\ \A n \in SubScorers : call.sub[n].failed /\ ~call.sub[n].raised

DocumentedDefault ==
    [keyword |-> Whole(0), semantic |-> Whole(0), skill |-> Whole(85), experience |-> Whole(75)]

\* C7: a sub-scorer whose computation fails inside returns its documented
\* default: 0.0 keyword, 0.0 semantic, 85.0 skill match, 75.0 experience.
C7_FailureDefaults ==
    call.kind = "call" =>
        \A n \in SubScorers :
            (call.sub[n].failed /\ ~call.sub[n].raised) => call.sub[n].val = DocumentedDefault[n]

(***************************************************************************)
(* Properties of MatchingCriteria.                                         *)
(***************************************************************************)
Attempted == criteria.kind = "attempt"

TotalWeight == criteria.weights[1] + criteria.weights[2] + criteria.weights[3] + criteria.weights[4]

ThresholdsInOrder ==
    /\ 0 <= criteria.minimum
    /\ criteria.minimum <= criteria.medium
    /\ criteria.medium <= criteria.high
    /\ criteria.high <= 100

Constructed == criteria.outcome.kind = "MatchingCriteria"

\* C8 as stated: with valid thresholds the construction fails whenever the
\* weights sum to a value outside [0.99, 1.01] and succeeds whenever the sum
\* is inside that interval, the end points included.
C8_ClosedInterval ==
    (Attempted /\ ThresholdsInOrder) =>
        /\ (TotalWeight < 990 \/ TotalWeight > 1010) => ~Constructed
        /\ (990 <= TotalWeight /\ TotalWeight <= 1010) => Constructed

\* C8, amended: the construction fails whenever the weights sum to a value
\* outside [0.99, 1.01], and also on a sum of exactly 0.99 or 1.01 unless
\* rounding in the additions moved the double sum towards 1.0; with valid
\* thresholds it succeeds whenever the sum is strictly between 0.99 and 1.01,
\* whatever the single weights are; the default weights succeed; a failed
\* construction leaves an error and no object.
C8_OpenInterval ==
    Attempted =>
        /\ (TotalWeight < 990 \/ TotalWeight > 1010) => ~Constructed
        /\ (TotalWeight \in {990, 1010} /\ criteria.drift = 0) => ~Constructed
        /\ (990 < TotalWeight /\ TotalWeight < 1010 /\ ThresholdsInOrder) => Constructed
        /\ (criteria.weights = <<400, 350, 150, 100>> /\ ThresholdsInOrder) => Constructed
        /\ ~Constructed => DOMAIN criteria.outcome = {"kind", "error", "message"}
        /\ Constructed =>
                /\ criteria.outcome.keyword_weight = criteria.weights[1]
                /\ criteria.outcome.semantic_weight = criteria.weights[2]
                /\ criteria.outcome.skill_weight = criteria.weights[3]
                /\ criteria.outcome.experience_weight = criteria.weights[4]

\* weights 0.99, 0, 0, 0 with valid thresholds: the construction failed
C8_Witness ==
    /\ Attempted
    /\ criteria.weights = <<990, 0, 0, 0>>
    /\ ThresholdsInOrder
    /\ criteria.outcome.kind = "raised"
    /\ criteria.outcome.message = "Weights must sum to 1.0"

\* C9: with weights that sum to 1.0 the construction succeeds exactly when
\* 0 <= minimum <= medium <= high <= 100 and fails with an error otherwise.
C9_ThresholdOrder ==
    (Attempted /\ TotalWeight = 1000) =>
        /\ Constructed <=> ThresholdsInOrder
        /\ ~Constructed => criteria.outcome.error = "ValueError"

\* minimum 50, medium 40, high 75 with the default weights: the
\* construction failed
C9_Witness ==
    /\ Attempted
    /\ criteria.weights = <<400, 350, 150, 100>>
    /\ criteria.minimum = 50 /\ criteria.medium = 40 /\ criteria.high = 75
    /\ criteria.outcome.kind = "raised"

(***************************************************************************)
(* Properties of the score-to-verdict mappings.                            *)
(***************************************************************************)
\* the verdicts computed so far for the probed score; AnalysisResult derives
\* one only when the verdict it is given is not valid
DerivedVerdicts ==
    ({probe.engine, probe.criteria}
        \cup (IF probe.given \in {"High", "Medium", "Low"} THEN {} ELSE {probe.analysis}))
    \ {Unset}

\* C10: for every integer score, _determine_verdict(score),
\* get_verdict_for_score(score) of a default MatchingCriteria and the verdict
\* AnalysisResult derives from relevance_score when given an invalid verdict
\* are equal.
C10_OneMapping ==
    probe.kind = "verdicts" => Cardinality(DerivedVerdicts) <= 1

\* score 75 with an invalid verdict given: all three mappings have run and
\* said High
C10_Witness ==
    /\ probe.kind = "verdicts"
    /\ probe.score = 75
    /\ probe.given = "Excellent"
    /\ probe.engine = "High" /\ probe.criteria = "High" /\ probe.analysis = "High"

(***************************************************************************)
(* Properties of the classification against a supplied MatchingCriteria.   *)
(***************************************************************************)
\* C11: when a MatchingCriteria is supplied, the verdict the aggregator
\* gives a final score equals get_verdict_for_score of that criteria, for
\* every valid criteria and every final score, not only for the default
\* thresholds 75 and 50.
C11_SuppliedThresholds ==
    (probe.kind = "verdicts" /\ criteria.kind = "MatchingCriteria" /\ probe.engine # Unset)
        => probe.engine = get_verdict_for_score(criteria, probe.score)

\* thresholds 40/50/100 at hand and the score 80: the aggregator said High
C11_Witness ==
    /\ probe.kind = "verdicts"
    /\ criteria.kind = "MatchingCriteria"
    /\ criteria.high_score_threshold = 100 /\ criteria.medium_score_threshold = 50
    /\ probe.score = 80
    /\ probe.engine = "High"
    /\ probe.criteria = "Medium"

(***************************************************************************)
(* Properties of the sub-scorers called on their own.                      *)
(***************************************************************************)
AppliedTo(scorer) == probe.kind = "applied" /\ probe.scorer = scorer

\* None or a list of strings
SkillsOrNone(v) == v = None \/ (IsList(v) /\ AllStr(v))

\* the strings of a skill list; none for None
SkillsOf(v) == IF v = None THEN <<>> ELSE v.val

\* a skill counts as found: trimmed and lower-cased it is a substring of the
\* lower-cased resume, or every word of it is a token of the resume
FoundIn(skill, content) ==
    \/ IsSubstring(strip(lower(skill)), lower(content))
    \/ \A w \in Range(split(strip(lower(skill)))) : w \in Range(split(lower(content)))

\* weight * found / count, or the whole weight for an empty list
Share(weight, skills, content) ==
    IF skills = <<>> THEN weight
    ELSE RMul(weight, Q(Cardinality({i \in 1..Len(skills) : FoundIn(skills[i].val, content)}),
                        Len(skills)))

\* C12: _calculate_skill_match_score returns exactly 85.0 when the job has
\* neither must-have nor nice-to-have skills, whatever the resume; otherwise
\* it returns min(100, 100 * (M + N)) with M = 0.8 * found / count of the
\* must-have skills (0.8 for an empty list) and N = 0.2 * found / count of
\* the nice-to-have skills (0.2 for an empty list), a skill being found iff
\* its lower-cased trimmed text is a substring of the lower-cased resume or
\* every word of it is a whitespace-separated token of the resume.
C12_SkillMatchFormula ==
    (/\ AppliedTo("skill")
     /\ probe.job_description # None
     /\ SkillsOrNone(probe.job_description.must_have_skills)
     /\ SkillsOrNone(probe.job_description.nice_to_have_skills)) =>
        LET must == SkillsOf(probe.job_description.must_have_skills)
            nice == SkillsOf(probe.job_description.nice_to_have_skills)
        IN  IF must = <<>> /\ nice = <<>>
            THEN probe.result.val = Whole(85)
            ELSE probe.resume # None =>
                    probe.result.val =
                        RMin(Whole(100),
                             RMul(Whole(100),
                                  RAdd(Share(Q(8, 10), must, probe.resume.content.val),
                                       Share(Q(2, 10), nice, probe.resume.content.val))))

\* "machine learning" is no substring of the resume but both its words are
\* tokens of it: one of three must-have skills and the nice-to-have skill
\* are found, 100 * (0.8 / 3 + 0.2)
C12_Witness ==
    /\ AppliedTo("skill")
    /\ probe.resume # None /\ probe.job_description # None
    /\ SkillsOrNone(probe.job_description.must_have_skills)
    /\ SkillsOrNone(probe.job_description.nice_to_have_skills)
    /\ Len(SkillsOf(probe.job_description.must_have_skills)) = 3
    /\ Len(SkillsOf(probe.job_description.nice_to_have_skills)) = 1
    /\ ~IsSubstring(<<"m","a","c","h","i","n","e"," ","l","e","a","r","n","i","n","g">>,
                    lower(probe.resume.content.val))
    /\ probe.result.val = Q(140, 3)

\* the band of each recognised level, lower-cased; Infinity for no upper end
ClaimedBand(label) ==
    CASE label = <<"e","n","t","r","y"," ","l","e","v","e","l">> -> <<0, 2>>
      [] label = <<"m","i","d"," ","l","e","v","e","l">> -> <<2, 5>>
      [] label = <<"s","e","n","i","o","r"," ","l","e","v","e","l">> -> <<5, 10>>
      [] label = <<"e","x","e","c","u","t","i","v","e">> -> <<10, Infinity>>
      [] OTHER -> <<>>

\* 100 inside [min, max), 15 a year below it down to 30, 5 a year from max
\* on down to 70
ClaimedExperience(y, band) ==
    IF band[1] <= y /\ (band[2] = Infinity \/ y < band[2]) THEN 100
    ELSE IF y < band[1] THEN IntMax(30, 100 - 15 * (band[1] - y))
    ELSE IntMax(70, 100 - 5 * (y - band[2]))

\* the years found in the resume of the call
ProbedYears == _extract_years_of_experience(lower(probe.resume.content.val)).val

\* the level of the call, lower-cased; empty when there is none
ProbedLevel ==
    IF IsStr(probe.job_description.experience_level)
    THEN lower(probe.job_description.experience_level.val) ELSE <<>>

\* C13: with y the years extracted from the resume, _calculate_experience_score
\* returns 75.0 when the level is absent or none of Entry Level [0,2),
\* Mid Level [2,5), Senior Level [5,10), Executive [10,inf); otherwise 100.0
\* when min <= y < max, max(30, 100 - 15 * (min - y)) when y < min and
\* max(70, 100 - 5 * (y - max)) when y >= max.  5 years against Senior Level
\* give 100.0, 1 year against Senior Level gives 40.0.
C13_ExperienceBands ==
    (AppliedTo("experience") /\ probe.resume # None /\ probe.job_description # None) =>
        /\ ClaimedBand(ProbedLevel) = <<>> => probe.result.val = Whole(75)
        /\ ClaimedBand(ProbedLevel) # <<>> =>
                probe.result.val = Whole(ClaimedExperience(ProbedYears, ClaimedBand(ProbedLevel)))
        /\ (ProbedLevel = <<"s","e","n","i","o","r"," ","l","e","v","e","l">> /\ ProbedYears = 5)
                => probe.result.val = Whole(100)
        /\ (ProbedLevel = <<"s","e","n","i","o","r"," ","l","e","v","e","l">> /\ ProbedYears = 1)
                => probe.result.val = Whole(40)

\* 10 years against Senior Level, the upper end of the band: 100.0
C13_Witness ==
    /\ AppliedTo("experience")
    /\ probe.resume # None /\ probe.job_description # None
    /\ ProbedLevel = <<"s","e","n","i","o","r"," ","l","e","v","e","l">>
    /\ ProbedYears = 10
    /\ probe.result.val = Whole(100)
    /\ ~probe.result.failed

\* the bundle of the call holds a number and two lists
FullBundle ==
    /\ probe.ai_analysis # None
    /\ IsNum(probe.ai_analysis.semantic_similarity)
    /\ IsList(probe.ai_analysis.matching_skills)
    /\ IsList(probe.ai_analysis.missing_skills)

\* 100 * s + min(10, 2 * m) - min(15, 3 * k), clamped to [0, 100]
ClaimedSemantic(s, m, k) ==
    RMax(Whole(0),
         RMin(Whole(100),
              RSub(RAdd(RMul(Whole(100), s), Whole(IntMin(10, 2 * m))),
                   Whole(IntMin(15, 3 * k)))))

\* C14: for a bundle with semantic_similarity s in [0, 1], m matching skills
\* and k missing skills, _calculate_semantic_score returns
\* 100 * s + min(10, 2 * m) - min(15, 3 * k) clamped to [0, 100]; for
\* s = 0.6, m = 3, k = 2 that is 60.0.
C14_SemanticAdjustment ==
    (AppliedTo("semantic") /\ FullBundle) =>
        /\ probe.result.val =
                ClaimedSemantic(probe.ai_analysis.semantic_similarity.val,
                                Len(probe.ai_analysis.matching_skills.val),
                                Len(probe.ai_analysis.missing_skills.val))
        /\ (/\ probe.ai_analysis.semantic_similarity.val = Q(6, 10)
            /\ Len(probe.ai_analysis.matching_skills.val) = 3
            /\ Len(probe.ai_analysis.missing_skills.val) = 2)
                => probe.result.val = Whole(60)

\* similarity 0.6 with 3 matching and 2 missing skills: 60.0
C14_Witness ==
    /\ AppliedTo("semantic")
    /\ FullBundle
    /\ probe.ai_analysis.semantic_similarity.val = Q(6, 10)
    /\ Len(probe.ai_analysis.matching_skills.val) = 3
    /\ Len(probe.ai_analysis.missing_skills.val) = 2
    /\ probe.result.val = Whole(60)
    /\ ~probe.result.failed

\* a field of the bundle that is missing or null
IsAbsent(v) == v = Absent \/ v = None

\* the bundle with every absent field replaced by its neutral default
Neutral(b) ==
    Bundle(IF IsAbsent(b.semantic_similarity) THEN Num(Whole(0)) ELSE b.semantic_similarity,
           IF IsAbsent(b.matching_skills) THEN List(<<>>) ELSE b.matching_skills,
           IF IsAbsent(b.missing_skills) THEN List(<<>>) ELSE b.missing_skills,
           b.reasoning)

\* C15: for every bundle in which any of semantic_similarity, matching_skills
\* and missing_skills is absent (key missing or value null),
\* _calculate_semantic_score does not fail and returns what it returns for
\* the bundle with each absent field replaced by its neutral default
\* (similarity 0.0, empty list), the fields that are present contributing
\* as before.
C15_AbsentFieldsNeutral ==
    (AppliedTo("semantic") /\ probe.ai_analysis # None) =>
        /\ ~probe.result.raised
        /\ ~probe.result.failed
        /\ probe.result.val = _calculate_semantic_score(Neutral(probe.ai_analysis)).val

\* null similarity beside three matching skills: the computation failed
\* inside and 0.0 came back, where the neutral similarity gives 6.0
C15_Witness ==
    /\ AppliedTo("semantic")
    /\ probe.ai_analysis # None
    /\ probe.ai_analysis.semantic_similarity = None
    /\ probe.ai_analysis.matching_skills = SkillList(3)
    /\ probe.ai_analysis.missing_skills = SkillList(0)
    /\ probe.result.failed
    /\ probe.result.val = Whole(0)
    /\ _calculate_semantic_score(Neutral(probe.ai_analysis)).val = Whole(6)

\* the two texts of the keyword call, lower-cased, and its required skills
ProbedResumeText == lower(probe.resume.content.val)
ProbedJdText == lower(probe.job_description.description.val)
ProbedSkills ==
    OrEmptyList(probe.job_description.must_have_skills).val
        \o OrEmptyList(probe.job_description.nice_to_have_skills).val

\* the three sub-signals of the keyword call: vector similarity of an engine
\* with the same libraries, keyword presence, skill-keyword match
SignalV ==
    _calculate_tfidf_similarity(ScoringEngine(engine.sklearn, engine.fuzzywuzzy),
                                ProbedResumeText, ProbedJdText).val
SignalP == _calculate_keyword_presence(engine, ProbedResumeText, ProbedJdText)
SignalS == _calculate_skill_keyword_match(ProbedResumeText, ProbedSkills)

InUnit(x) == ~RLess(x, Whole(0)) /\ ~RLess(Whole(1), x)

\* 100 * (0.4 * v + 0.3 * p + 0.3 * s) clamped to [0, 100]
ClaimedBlend(v, p, s) ==
    RMax(Whole(0),
         RMin(Whole(100),
              RMul(Whole(100),
                   RAdd(RAdd(RMul(Q(4, 10), v), RMul(Q(3, 10), p)), RMul(Q(3, 10), s)))))

\* C16: when nothing fails inside, _calculate_keyword_score returns
\* 100 * (0.4 * V + 0.3 * P + 0.3 * S) clamped to [0, 100], V being the
\* TF-IDF cosine similarity (0.0 when the vectorizer is unavailable or the
\* vectorization fails), P the keyword-presence and S the skill-keyword
\* sub-signal, each in [0, 1]; the result is never negative and never above
\* 100.
C16_KeywordBlend ==
    AppliedTo("keyword") =>
        /\ ~RLess(probe.result.val, Whole(0))
        /\ ~RLess(Whole(100), probe.result.val)
        /\ ~probe.result.failed =>
                /\ probe.result.val = ClaimedBlend(SignalV, SignalP, SignalS)
                /\ InUnit(SignalV) /\ InUnit(SignalP) /\ InUnit(SignalS)
                /\ ~engine.sklearn => SignalV = Whole(0)
                /\ (Ngrams(ProbedResumeText) = <<>> /\ Ngrams(ProbedJdText) = <<>>)
                        => SignalV = Whole(0)

\* a keyword call with all three sub-signals strictly between 0 and 1
C16_Witness ==
    /\ AppliedTo("keyword")
    /\ ~probe.result.failed
    /\ engine.sklearn
    /\ RLess(Whole(0), SignalV) /\ RLess(SignalV, Whole(1))
    /\ RLess(Whole(0), SignalP) /\ RLess(SignalP, Whole(1))
    /\ RLess(Whole(0), SignalS) /\ RLess(SignalS, Whole(1))
    /\ probe.result.val = ClaimedBlend(SignalV, SignalP, SignalS)

(***************************************************************************)
(* Properties of the confidence estimate.                                  *)
(***************************************************************************)
\* 100 times the mean of three factors, rounded to one decimal
MeanOfThree(a, b, c) ==
    LET x == RMul(Whole(1000), RMul(Q(1, 3), RAdd(RAdd(a, b), c)))
    IN  Q(CHOOSE t \in 0..1000 : 2 * Abs(t * x[2] - x[1]) < x[2], 10)

\* 0.9 iff the resume has 200 to 800 words
ClaimedLengthFactor ==
    IF WordCount(probe.resume.content.val) \in 200..800 THEN Q(9, 10) ELSE Q(6, 10)

\* 0.95 iff the bundle has non-empty reasoning and at least one matching skill
ClaimedAnalysisFactor ==
    IF /\ IsStr(probe.ai_analysis.reasoning)
       /\ probe.ai_analysis.reasoning.val # <<>>
       /\ IsList(probe.ai_analysis.matching_skills)
       /\ probe.ai_analysis.matching_skills.val # <<>>
    THEN Q(95, 100) ELSE Q(8, 10)

\* C17: when nothing fails, _calculate_confidence_score returns 100 times
\* the mean of three factors rounded to one decimal: the resume-length
\* factor is 0.9 iff the word count is in [200, 800] and 0.6 otherwise, the
\* job-description factor is 0.9 or 0.7, and the AI-analysis factor is 0.95
\* iff the bundle has non-empty reasoning text and at least one matching
\* skill and 0.8 otherwise.
C17_ConfidenceMean ==
    (AppliedTo("confidence") /\ ~probe.result.failed) =>
        \E job_factor \in {Q(9, 10), Q(7, 10)} :
            probe.result.val =
                MeanOfThree(ClaimedLengthFactor, job_factor, ClaimedAnalysisFactor)

\* 200 words, a complete job description, reasoning and a matching skill:
\* 100 * (0.9 + 0.9 + 0.95) / 3 = 91.7
C17_Witness ==
    /\ AppliedTo("confidence")
    /\ ~probe.result.failed
    /\ WordCount(probe.resume.content.val) = 200
    /\ ClaimedAnalysisFactor = Q(95, 100)
    /\ probe.result.val = Q(917, 10)

\* 0.9 iff the job has at least one must-have or nice-to-have skill and a
\* non-empty description
ClaimedJobFactor ==
    IF /\ \/ Truthy(probe.job_description.must_have_skills)
          \/ Truthy(probe.job_description.nice_to_have_skills)
       /\ Truthy(probe.job_description.description)
    THEN Q(9, 10) ELSE Q(7, 10)

\* C18: in _calculate_confidence_score the job-description completeness
\* factor is 0.9 whenever the job has a skill list (at least one must-have
\* or nice-to-have skill) and non-empty description text, and 0.7 otherwise.
C18_JobCompleteness ==
    (AppliedTo("confidence") /\ ~probe.result.failed) =>
        probe.result.val =
            MeanOfThree(ClaimedLengthFactor, ClaimedJobFactor, ClaimedAnalysisFactor)

\* a job with a description and a nice-to-have skill but no must-have skill,
\* 500 words, reasoning and a matching skill: 100 * (0.9 + 0.7 + 0.95) / 3
C18_Witness ==
    /\ AppliedTo("confidence")
    /\ ~probe.result.failed
    /\ ~Truthy(probe.job_description.must_have_skills)
    /\ Truthy(probe.job_description.nice_to_have_skills)
    /\ Truthy(probe.job_description.description)
    /\ WordCount(probe.resume.content.val) = 500
    /\ ClaimedAnalysisFactor = Q(95, 100)
    /\ probe.result.val = Whole(85)

\* C19: the confidence estimate never fails its caller: a bundle lacking
\* both reasoning and matching_skills yields the AI-quality factor 0.8 and a
\* normally computed confidence, and whenever the computation itself fails
\* (a null bundle or a null resume, for example) exactly 75.0 is returned.
C19_ConfidenceNeverFails ==
    AppliedTo("confidence") =>
        /\ ~probe.result.raised
        /\ IsNumber(probe.result.val)
        /\ probe.result.failed => probe.result.val = Whole(75)
        /\ (probe.resume = None \/ probe.job_description = None \/ probe.ai_analysis = None)
                => probe.result.failed /\ probe.result.val = Whole(75)
        /\ (/\ probe.resume # None /\ probe.job_description # None
            /\ probe.ai_analysis # None
            /\ probe.ai_analysis.reasoning = Absent
            /\ probe.ai_analysis.matching_skills = Absent) =>
                /\ ~probe.result.failed
                /\ \E job_factor \in {Q(9, 10), Q(7, 10)} :
                        probe.result.val =
                            MeanOfThree(ClaimedLengthFactor, job_factor, Q(8, 10))

\* a bundle with neither reasoning nor matching_skills beside 200 words and
\* a complete job description: 100 * (0.9 + 0.9 + 0.8) / 3 = 86.7, computed
\* without a failure
C19_Witness ==
    /\ AppliedTo("confidence")
    /\ probe.resume # None /\ probe.job_description # None /\ probe.ai_analysis # None
    /\ probe.ai_analysis.reasoning = Absent
    /\ probe.ai_analysis.matching_skills = Absent
    /\ ~probe.result.failed
    /\ probe.result.val = Q(867, 10)

(***************************************************************************)
(* Properties of the resume-analysis page.                                 *)
(***************************************************************************)
\* a statement of the try block has raised
PageFailed == \E i \in 1..Len(page.events) : ~page.events[i].ok

\* C20: in the resume-analysis flow the steps run in the order of PageSteps,
\* so the AI analysis comes before the scoring, the scoring before the save
\* and the save before the display; once a step has failed (the AI analysis,
\* calculate_hybrid_score or an earlier one) no further step runs, nothing
\* is saved or displayed, and the flow ends with an error message.
C20_AnalysisFlowOrder ==
    page.pc # "none" =>
        /\ Len(page.events) <= Len(PageSteps)
        /\ \A i \in 1..Len(page.events) : page.events[i].step = PageSteps[i]
        /\ \A i \in 1..Len(page.events) : ~page.events[i].ok => i = Len(page.events)
        /\ page.saved # Unassigned => page.scores # Unassigned /\ page.ai_analysis # Unassigned
        /\ page.displayed # Unassigned => page.saved = page.displayed
        /\ PageFailed =>
              /\ page.pc \in {"except", "done"}
              /\ page.saved = Unassigned
              /\ page.displayed = Unassigned
              /\ page.pc = "done" => page.message.kind = "error"

\* the AI analysis has failed and the flow has ended with the error message
C20_Witness ==
    /\ page.pc = "done"
    /\ Len(page.events) = 4
    /\ page.events[4] = [step |-> "analyze_resume_job_match", ok |-> FALSE]
    /\ page.message = StError("Error analyzing resume")
    /\ page.saved = Unassigned
    /\ page.displayed = Unassigned

(***************************************************************************)
(* Properties of JobDescription.                                           *)
(***************************************************************************)
\* the places of a text where a piece ends: each comma, and the end
PieceEnds(text) == {i \in 1..Len(text) : text[i] = ","} \cup {Len(text) + 1}

\* the piece that ends at `e`: what lies between the comma before it and it
PieceBefore(text, e) ==
    LET starts == {i \in PieceEnds(text) : i < e}
        s == IF starts = {} THEN 0 ELSE CHOOSE i \in starts : \A j \in starts : j <= i
    IN  SubSeq(text, s + 1, e - 1)

\* the ends of the pieces that are more than whitespace
KeptEnds(text) == {e \in PieceEnds(text) : \E c \in Range(PieceBefore(text, e)) : ~IsSpace(c)}

Trimmed(t) == t # <<>> /\ ~IsSpace(t[1]) /\ ~IsSpace(t[Len(t)])

\* the value of the field the text was passed for
FieldOf(job, field) ==
    IF field = "must_have_skills" THEN job.must_have_skills ELSE job.nice_to_have_skills

\* C21: a skills field supplied as one comma-separated string becomes the list
\* of its comma-separated pieces, in their order, each trimmed, the empty ones
\* dropped; each element is a trimmed non-empty string; and constructing
\* again from the comma-joined list gives the same list.
C21_SkillsNormalized ==
    probe.kind \in {"job", "job_again"} =>
        LET skills == FieldOf(probe.job, probe.field)
            ends == KeptEnds(probe.text)
        IN  /\ IsList(skills)
            /\ Len(skills.val) = Cardinality(ends)
            /\ \A e \in ends :
                    skills.val[Cardinality({d \in ends : d <= e})]
                        = Str(strip(PieceBefore(probe.text, e)))
            /\ \A i \in 1..Len(skills.val) :
                    /\ IsStr(skills.val[i])
                    /\ Trimmed(skills.val[i].val)
                    /\ "," \notin Range(skills.val[i].val)
            /\ probe.kind = "job_again" =>
                    FieldOf(probe.again, probe.field) = skills

\* "a,,b " was passed, the list of "a" and "b" was stored, and the second
\* construction has run
C21_Witness ==
    /\ probe.kind = "job_again"
    /\ probe.text = <<"a", ",", ",", "b", " ">>
    /\ FieldOf(probe.job, probe.field) = Skills(<<<<"a">>, <<"b">>>>)
    /\ FieldOf(probe.again, probe.field) = Skills(<<<<"a">>, <<"b">>>>)

(***************************************************************************)
(* Properties of the calls on their arguments.                             *)
(***************************************************************************)
\* C22: after any sequence of calls of calculate_hybrid_score and
\* calculate_detailed_metrics the resume, the job description with both its
\* skill lists, the analysis bundle and the engine's weights table are what
\* they were before the calls.
C22_ArgumentsUnchanged ==
    probe.kind = "held" =>
        /\ probe.held.resume = probe.original.resume
        /\ probe.held.job_description = probe.original.job_description
        /\ probe.held.ai_analysis = probe.original.ai_analysis
        /\ engine.weights = probe.weights

\* both methods have been called on a job with two skill lists and a bundle
\* that lacks keys, and the vectorizer has been fitted on the way
C22_Witness ==
    /\ probe.kind = "held"
    /\ probe.calls = MaxCalls
    /\ probe.method = "calculate_detailed_metrics"
    /\ call.kind = "metrics" /\ call.metrics # EmptyMetrics
    /\ engine.vec # Unfitted
    /\ probe.held.ai_analysis = Bundle(Str(<<"0", ".", "5">>), SkillList(0), SkillList(0), Absent)
    /\ probe.held.job_description.kind = "JobDescription"
    /\ Truthy(probe.held.job_description.must_have_skills)
    /\ Truthy(probe.held.job_description.nice_to_have_skills)

(***************************************************************************)
(* Properties of _extract_years_of_experience.                             *)
(***************************************************************************)
\* the numbers the four explicit year patterns capture in a text
NumbersMatched(text) ==
    {IntOf(m) : m \in Range(findall(1, text) \o findall(2, text)
                                \o findall(3, text) \o findall(4, text))}

\* the words of a text that are one of worked / employed / position / role
RoleIndicatorCount(text) ==
    Cardinality({i \in 1..Len(Runs(lower(text), 1, <<>>, "word")) :
                    Runs(lower(text), 1, <<>>, "word")[i] \in RoleWords})

\* the years the role-indicator count stands for
ClaimedEstimate(c) == IF c >= 3 THEN 5 ELSE IF c = 2 THEN 3 ELSE IF c = 1 THEN 1 ELSE 0

\* the years the claim gives for a text
ClaimedYears(numbers, c) ==
    IF numbers # {} THEN CHOOSE n \in numbers : \A m \in numbers : m <= n
    ELSE ClaimedEstimate(c)

ProbedText == probe.resume.content.val

ExperienceApplied ==
    /\ AppliedTo("experience")
    /\ probe.resume # None
    /\ probe.job_description # None

\* the extraction of the years from the probed resume took its except branch
ExtractionFailed == _extract_years_of_experience(lower(ProbedText)).failed

\* C24: when the extraction of the years of experience fails, the experience
\* score is the neutral default 75.0, whatever the job's experience level.
C24_ExtractionFailureDefault ==
    (ExperienceApplied /\ ExtractionFailed) => probe.result.val = Whole(75)

\* the extraction has failed on a resume scored against Senior Level, and the
\* score is the one of a candidate with 1 year: 40
C24_Witness ==
    /\ ExperienceApplied
    /\ ExtractionFailed
    /\ ProbedLevel = <<"s","e","n","i","o","r"," ","l","e","v","e","l">>
    /\ probe.result.val = Whole(40)
    /\ ~probe.result.failed

\* no explicit year pattern matches the probed resume
NoYearsPattern == NumbersMatched(ProbedText) = {}

\* C29: a resume without an explicit years pattern scores exactly 30.0 against
\* 'Executive' whatever its number of role-indicator words, and against
\* 'Senior Level' 30.0, 40.0, 70.0 and 100.0 for 0, 1, 2 and 3 or more
\* role-indicator words.
C29_FallbackScores ==
    (ExperienceApplied /\ NoYearsPattern) =>
        /\ ProbedLevel = <<"e","x","e","c","u","t","i","v","e">> =>
                probe.result.val = Whole(30)
        /\ ProbedLevel = <<"s","e","n","i","o","r"," ","l","e","v","e","l">> =>
                probe.result.val =
                    Whole(CASE RoleIndicatorCount(ProbedText) = 0 -> 30
                            [] RoleIndicatorCount(ProbedText) = 1 -> 40
                            [] RoleIndicatorCount(ProbedText) = 2 -> 70
                            [] OTHER -> 100)

\* four role-indicator words and no years pattern, against Executive: 30
C29_Witness ==
    /\ ExperienceApplied
    /\ NoYearsPattern
    /\ RoleIndicatorCount(ProbedText) = 4
    /\ ProbedLevel = <<"e","x","e","c","u","t","i","v","e">>
    /\ probe.result.val = Whole(30)

(***************************************************************************)
(* Properties of the keyword sub-signals.                                  *)
(***************************************************************************)
\* the arguments of the probed call of a sub-signal
GivenResumeText == probe.resume.content.val
GivenJdText == probe.job_description.description.val

\* the important keywords of the job description: its alphabetic tokens of
\* more than 3 letters that are no stop word
ImportantKeywords == _extract_important_keywords(GivenJdText)

Verbatim == {k \in ImportantKeywords : IsSubstring(k, GivenResumeText)}

\* the keywords that some resume token matches with a partial ratio of 80 or
\* more, the fuzzy matcher being there
Fuzzy ==
    {k \in ImportantKeywords \ Verbatim :
        /\ engine.fuzzywuzzy
        /\ \E i \in 1..Len(split(GivenResumeText)) :
                partial_ratio(full_process(k), full_process(split(GivenResumeText)[i])) >= 80}

GivenSkills == probe.job_description.must_have_skills.val

\* the tokens of the resume text
ResumeTokens == Range(split(GivenResumeText))

\* the words of a skill, lower-cased and trimmed
SkillWords(skill) == Range(split(strip(lower(skill))))

\* the credit the claim gives to one skill, in tenths
ClaimedSkillCredit(skill) ==
    IF IsSubstring(strip(lower(skill)), GivenResumeText) THEN 10
    ELSE IF SkillWords(skill) \subseteq ResumeTokens THEN 8
    ELSE IF SkillWords(skill) \cap ResumeTokens # {} THEN 4
    ELSE 0

\* C26: _calculate_skill_keyword_match returns 1.0 when no skills are given;
\* otherwise (sum of the skills' credits) / (number of skills), a skill
\* earning 1 for an exact substring match in the resume, else 0.8 when every
\* word of it is a resume token, else 0.4 when some but not all of its words
\* are resume tokens, else 0.
C26_SkillKeywordMatch ==
    AppliedTo("skill_keyword") =>
        /\ GivenSkills = <<>> => probe.result.val = Whole(1)
        /\ GivenSkills # <<>> =>
                probe.result.val =
                    Q(SeqSum(Tuple([i \in 1..Len(GivenSkills) |->
                                        ClaimedSkillCredit(GivenSkills[i].val)])),
                      10 * Len(GivenSkills))

\* two skills, one with all its words among the tokens and one with some:
\* (0.8 + 0.4) / 2
C26_Witness ==
    /\ AppliedTo("skill_keyword")
    /\ Len(GivenSkills) = 2
    /\ ClaimedSkillCredit(GivenSkills[1].val) = 8
    /\ ClaimedSkillCredit(GivenSkills[2].val) = 4
    /\ probe.result.val = Q(6, 10)

\* the distinct skills of the two lists of the probed job
UnionOfSkills == Range(ProbedSkills)

\* the skill-keyword sub-signal over the union: every distinct skill credited
\* once and counted once
SignalOverUnion ==
    IF UnionOfSkills = {} THEN Whole(1)
    ELSE Q(SetSum(UnionOfSkills,
                  [k \in UnionOfSkills |-> SkillCredit(k.val, ProbedResumeText)]),
           10 * Cardinality(UnionOfSkills))

\* C27: the skill-keyword sub-signal of the keyword score is computed over the
\* union of the must-have and nice-to-have skills, so a skill listed in both
\* lists is credited once and counted once and the keyword score is the one
\* of the job without the repetition.
C27_SkillsAsUnion ==
    (AppliedTo("keyword") /\ ~probe.result.failed) =>
        probe.result.val = ClaimedBlend(SignalV, SignalP, SignalOverUnion)

\* "java" is in both lists and is in the resume, "sql" is not: the sub-signal
\* is (1 + 0 + 1) / 3 and not 1 / 2
C27_Witness ==
    /\ AppliedTo("keyword") /\ ~probe.result.failed
    /\ Len(ProbedSkills) = 3
    /\ Cardinality(UnionOfSkills) = 2
    /\ SignalS = Q(2, 3)
    /\ SignalOverUnion = Q(1, 2)
    /\ probe.result.val = ClaimedBlend(SignalV, SignalP, SignalS)
    /\ probe.result.val # ClaimedBlend(SignalV, SignalP, SignalOverUnion)

(***************************************************************************)
(* The least final score.                                                  *)
(***************************************************************************)
\* C28: a final_score of 0 cannot be returned: the experience score is at
\* least 30 on every path and weighs 0.10, the other three scores are not
\* negative, so every result of calculate_hybrid_score has final_score >= 3,
\* also when the keyword, semantic and skill scores are all 0.
C28_FinalScoreAtLeastThree ==
    Returned =>
        /\ ~RLess(call.sub.experience.val, Whole(30))
        /\ \A n \in SubScorers : ~RLess(call.sub[n].val, Whole(0))
        /\ call.outcome.final_score >= 3

\* keyword, semantic and skill scores of 0 and an experience score of 30:
\* the final score is 3
C28_Witness ==
    /\ Returned
    /\ call.sub.keyword.val = Whole(0)
    /\ call.sub.semantic.val = Whole(0)
    /\ call.sub.skill.val = Whole(0)
    /\ call.sub.experience.val = Whole(30)
    /\ call.outcome.final_score = 3

(***************************************************************************)
(* Properties of AnalysisResult.                                           *)
(***************************************************************************)
\* the verdict of a score in [0, 100]
VerdictOfScore(score) ==
    IF score >= 75 THEN "High" ELSE IF score >= 50 THEN "Medium" ELSE "Low"

\* the score brought into [0, 100]
ClampedScore(score) == IF score < 0 THEN 0 ELSE IF score > 100 THEN 100 ELSE score

\* C30: every constructed AnalysisResult has relevance_score in [0, 100], the
\* given score clamped, and a verdict among High, Medium, Low; a given verdict
\* outside that set is replaced by the verdict of the clamped score (>= 75
\* High, >= 50 Medium, else Low), a given valid verdict is kept; and in the
\* page's flow, where score and verdict come from one calculate_hybrid_score
\* result, the created and the saved result have the verdict of their score.
C30_ResultScoreAndVerdict ==
    /\ probe.kind = "result" =>
            /\ probe.result.relevance_score = ClampedScore(probe.relevance_score)
            /\ probe.result.relevance_score \in 0..100
            /\ probe.result.verdict \in {"High", "Medium", "Low"}
            /\ probe.verdict \in {"High", "Medium", "Low"} =>
                    probe.result.verdict = probe.verdict
            /\ probe.verdict \notin {"High", "Medium", "Low"} =>
                    probe.result.verdict = VerdictOfScore(probe.result.relevance_score)
    /\ (page.pc # "none" /\ page.result # Unassigned) =>
            /\ page.result.relevance_score = page.scores.final_score
            /\ page.result.relevance_score \in 0..100
            /\ page.result.verdict = page.scores.verdict
            /\ page.result.verdict = VerdictOfScore(page.result.relevance_score)
            /\ page.saved \in {Unassigned, page.result}

\* a score above 100 given with a verdict that is not valid: stored as 100, High
C30_Witness ==
    /\ probe.kind = "result"
    /\ probe.relevance_score > 100
    /\ probe.verdict = "Excellent"
    /\ probe.result.relevance_score = 100
    /\ probe.result.verdict = "High"
====
